---- MODULE Spec2Model ----
(***************************************************************************)
(* Guarded command execution core of the Polymarket Veto sidecar:          *)
(* PolymarketVetoRuntime.callTool with its policy branch, the cloud        *)
(* approval poller, the live/simulation gate and the simulation path,      *)
(* together with the tool catalogue and the invocation builders.           *)
(*                                                                         *)
(* Strings are TLA+ strings; a message is the tuple of the fragments the   *)
(* code concatenates.  A JavaScript value is a record [t, s, n]: its type  *)
(* tag, its text (strings) and its number n / d (booleans as 0 or 1).    *)
(***************************************************************************)
EXTENDS Integers, Sequences, FiniteSets, TLC

VARIABLES
  config,      \* resolved.config.execution: simulationDefault, allowLiveTrades
  env,         \* process.env: ALLOW_LIVE_TRADES and the API key variable
  binary,      \* this.binary: the resolution fixed by the constructor
  deps,        \* RuntimeDependencies: which waitForApproval is installed
  pollConfig,  \* approval.pollInterval / approval.timeout of veto.config.yaml
  pc,          \* position of the callTool in flight
  call,        \* toolName, args, simulationOverride of the call in flight
  built,       \* spec.build(args): argv and guardArgs
  decision,    \* the RuntimeDecision the guard returned
  approval,    \* the ApprovalResolution the poller returned
  result,      \* what callTool returned or threw
  guardCalls,  \* guard.guard invocations of this call
  waitCalls,   \* waitForApproval invocations of this call (their approvalId)
  execCalls,   \* execute invocations of this call (their argv)
  simCalls,    \* simulate invocations of this call
  poll,        \* waitForApprovalFromCloud: clock, deadline, lastError, requests
  execution,   \* the ExecutionResult execute resolved with for the tool's argv
  failures,    \* calls of this runtime that ended with BinaryUnavailable
  host,        \* the process the resolver ran in: options, env, executables
  session,     \* this.sessionId and this.agentId
  other,       \* the locals of the callTool invocation that is not running
  listed,      \* what listMcpTools returned last
  doctor,      \* doctor: its position and the report it returned last
  serveOptions, \* serveStdio: the ServeOptions the server was started with
  stdin,       \* the text the client sent and has still to send, and
               \* where the first chunk that arrived ended
  lineBuffer,  \* serveStdio: buffer, the unterminated rest of the input read
  loop,        \* the 'data' handler that is running: lines to go, request
  parked,      \* the 'data' handler that is not running
  replies,     \* what was written to process.stdout, one response per line
  spawned,     \* executePolymarket: binaryPath, argv and options of the call
  child,       \* the spawned process: what it does, its exit, the events sent
  stdout,      \* executePolymarket: the stdout buffer
  stderr,      \* executePolymarket: the stderr buffer
  outputTooLarge, \* executePolymarket: the flag the data handlers set
  timer,       \* executePolymarket: the SIGTERM timer
  settled      \* what the promise of executePolymarket resolved with

runtimeVars == <<config, env, binary, deps, pollConfig, pc, call, built,
                 decision, approval, result, guardCalls, waitCalls, execCalls,
                 simCalls, poll, execution, failures, host, session, other,
                 listed, doctor, serveOptions, stdin, lineBuffer, loop,
                 parked, replies>>

serverVars == <<serveOptions, stdin, lineBuffer, loop, parked, replies>>

executorVars == <<spawned, child, stdout, stderr, outputTooLarge, timer,
                  settled>>

vars == <<runtimeVars, executorVars>>

-----------------------------------------------------------------------------
(* Bounds of the model                                                     *)

\* largest approval.timeout (ms, scaled) a configuration may carry
MaxTimeoutMs == 2
\* largest approval.pollInterval (ms, scaled) a configuration may carry
MaxPollIntervalMs == 2
\* longest time one HTTP request may take
MaxLatencyMs == 1
\* how late a setTimeout may fire
MaxJitterMs == 1
\* how many BinaryUnavailable failures of one runtime are counted
MaxFailures == 1

-----------------------------------------------------------------------------
(* JavaScript values                                                       *)

Undefined == [t |-> "undefined", s |-> "", n |-> 0, d |-> 1]
Null == [t |-> "null", s |-> "", n |-> 0, d |-> 1]
Str(s) == [t |-> "string", s |-> s, n |-> 0, d |-> 1]
\* the number n / d, in lowest terms with d > 0
Rat(n, d) == [t |-> "number", s |-> "", n |-> n, d |-> d]
Num(n) == Rat(n, 1)
NaN == [t |-> "number", s |-> "NaN", n |-> 0, d |-> 1]
Infinity == [t |-> "number", s |-> "Infinity", n |-> 0, d |-> 1]
Bool(b) == [t |-> "boolean", s |-> "", n |-> IF b THEN 1 ELSE 0, d |-> 1]

\* an optional string held as a plain string: this text stands for undefined
NoString == "<undefined>"

\* a ?? b on optional strings
Coalesce(a, b) == IF a = NoString THEN b ELSE a

\* String.prototype.trim on the strings the model uses
Trim(s) ==
  CASE s = " 2 " -> "2"
    [] s = "   " -> ""
    [] s = " apr_2 " -> "apr_2"
    [] s = " expired " -> "expired"
    [] s = " SELL" -> "SELL"
    [] s = " gtc " -> "gtc"
    [] s = " markets_get " -> "markets_get"
    [] OTHER -> s

\* String.prototype.toLowerCase on the strings the model uses
ToLowerCase(s) ==
  CASE s = "TRUE" -> "true"
    [] s = "True" -> "true"
    [] s = "BUY" -> "buy"
    [] s = "SELL" -> "sell"
    [] s = "Sell" -> "sell"
    [] s = "HOLD" -> "hold"
    [] s = "GTC" -> "gtc"
    [] s = "FOK" -> "fok"
    [] OTHER -> s

\* String.prototype.toUpperCase on the strings the model uses
ToUpperCase(s) ==
  CASE s = "gtc" -> "GTC"
    [] s = "fok" -> "FOK"
    [] s = "Gtd" -> "GTD"
    [] s = "fak" -> "FAK"
    [] s = "ioc" -> "IOC"
    [] OTHER -> s

Digit(d) ==
  CASE d = 0 -> "0" [] d = 1 -> "1" [] d = 2 -> "2" [] d = 3 -> "3"
    [] d = 4 -> "4" [] d = 5 -> "5" [] d = 6 -> "6" [] d = 7 -> "7"
    [] d = 8 -> "8" [] d = 9 -> "9"

RECURSIVE NatToString(_)
NatToString(n) ==
  IF n < 10 THEN Digit(n) ELSE NatToString(n \div 10) \o Digit(n % 10)

RECURSIVE Gcd(_, _)
Gcd(a, b) == IF b = 0 THEN a ELSE Gcd(b, a % b)

Abs(n) == IF n < 0 THEN 0 - n ELSE n

\* n / d in lowest terms (d > 0)
Reduce(n, d) ==
  LET g == Gcd(Abs(n), d) IN Rat(n \div g, d \div g)

RECURSIVE Pow10(_)
Pow10(k) == IF k = 0 THEN 1 ELSE 10 * Pow10(k - 1)

\* the digits after the decimal point of r / d (a terminating decimal)
RECURSIVE FractionDigits(_, _)
FractionDigits(r, d) ==
  IF r = 0 THEN ""
  ELSE Digit((r * 10) \div d) \o FractionDigits((r * 10) % d, d)

\* String(x) of a finite number whose decimal expansion terminates
NumberToString(x) ==
  LET a == Abs(x.n)
      whole == NatToString(a \div x.d)
      frac == FractionDigits(a % x.d, x.d)
  IN (IF x.n < 0 THEN "-" ELSE "")
       \o whole \o (IF frac = "" THEN "" ELSE "." \o frac)

\* variant of ToFixed: the digits beyond are cut off
ToFixedTruncated(x, digits) ==
  LET scale == Pow10(digits)
  IN IF scale % x.d = 0 THEN x
     ELSE LET q == (Abs(x.n) * scale) \div x.d
          IN Reduce(IF x.n < 0 THEN 0 - q ELSE q, scale)

\* Number(x.toFixed(digits)): x rounded half up to that many fractional
\* digits; exact when x already has no more digits than that
ToFixed(x, digits) ==
  LET scale == Pow10(digits)
  IN IF scale % x.d = 0 THEN x
     ELSE LET q == (2 * Abs(x.n) * scale + x.d) \div (2 * x.d)
          IN Reduce(IF x.n < 0 THEN 0 - q ELSE q, scale)

Times(x, y) == Reduce(x.n * y.n, x.d * y.d)
Minus(x, y) == Reduce(x.n * y.d - y.n * x.d, x.d * y.d)
\* x / y for y > 0
Over(x, y) == Reduce(x.n * y.d, x.d * y.n)

\* Number(value): the coercion applied to a value that is no number
ToNumber(v) ==
  CASE v.t = "number" -> v
    [] v.t = "boolean" -> Num(v.n)
    [] v.t = "null" -> Num(0)
    [] v.t = "string" ->
         (CASE Trim(v.s) = "" -> Num(0)
            [] Trim(v.s) = "2" -> Num(2)
            [] Trim(v.s) = "5" -> Num(5)
            [] Trim(v.s) = "20" -> Num(20)
            [] Trim(v.s) = "0.5" -> Rat(1, 2)
            [] Trim(v.s) = "0" -> Num(0)
            [] OTHER -> NaN)
    [] OTHER -> NaN

IsFinite(v) == v.t = "number" /\ v.s = ""

\* args.field: undefined when the bag has no such key
Field(args, f) == IF f \in DOMAIN args THEN args[f] ELSE Undefined

-----------------------------------------------------------------------------
(* tools.ts: field validators.  A validator yields [ok, v, message]: the   *)
(* value it returns, or the message of the Error it throws.                *)

Ok(v) == [ok |-> TRUE, v |-> v, message |-> <<>>]
Throw(message) == [ok |-> FALSE, v |-> Undefined, message |-> message]

\* variant of assertAllowedFields: keys outside the allowed set are let through
assertAllowedFieldsLenient(args, allowed) == Ok(Undefined)

\* the keys of args outside the allowed set; the first one met is reported
assertAllowedFields(args, allowed) ==
  LET unexpected == DOMAIN args \ allowed
  IN IF unexpected = {} THEN Ok(Undefined)
     ELSE Throw(<<"Unexpected argument '", CHOOSE k \in unexpected : TRUE, "'">>)

asString(value, field) ==
  IF value.t # "string" \/ Trim(value.s) = ""
  THEN Throw(<<"Invalid '", field, "': expected non-empty string">>)
  ELSE Ok(Str(Trim(value.s)))

asNumber(value, field) ==
  LET parsed == IF value.t = "number" THEN value ELSE ToNumber(value)
  IN IF ~IsFinite(parsed)
     THEN Throw(<<"Invalid '", field, "': expected number">>)
     ELSE Ok(parsed)

asPositiveNumber(value, field) ==
  LET parsed == asNumber(value, field)
  IN IF ~parsed.ok THEN parsed
     ELSE IF parsed.v.n <= 0
          THEN Throw(<<"Invalid '", field, "': expected positive number">>)
          ELSE parsed

asBool(value, field) ==
  IF value.t # "boolean"
  THEN Throw(<<"Invalid '", field, "': expected boolean">>)
  ELSE Ok(value)

maybePositiveNumber(value, field) ==
  IF value = Undefined \/ value = Null THEN Ok(Undefined)
  ELSE asPositiveNumber(value, field)

maybeBool(value, field) ==
  IF value = Undefined \/ value = Null THEN Ok(Undefined)
  ELSE asBool(value, field)

maybeString(value, field) ==
  IF value = Undefined \/ value = Null THEN Ok(Undefined)
  ELSE asString(value, field)

\* variant of asSide: any non-empty text is taken for a side
asSideUnchecked(value, field) ==
  LET str == asString(value, field)
  IN IF ~str.ok THEN str ELSE Ok(Str(ToLowerCase(str.v.s)))

asSide(value, field) ==
  LET str == asString(value, field)
  IN IF ~str.ok THEN str
     ELSE LET side == ToLowerCase(str.v.s)
          IN IF side # "buy" /\ side # "sell"
             THEN Throw(<<"Invalid '", field, "': expected 'buy' or 'sell'">>)
             ELSE Ok(Str(side))

\* value is the string maybeString returned
asOrderType(value) ==
  LET normalized == ToUpperCase(Trim(value.s))
  IN IF normalized \in {"GTC", "FOK", "GTD", "FAK"}
     THEN Ok(Str(normalized))
     ELSE Throw(<<"Invalid 'orderType': expected GTC|FOK|GTD|FAK">>)

toFlagBool(value) == IF value.n = 1 THEN "true" ELSE "false"

\* the first validator of a build that throws decides the build
AllOk(checks) == \A i \in 1..Len(checks) : checks[i].ok
FirstThrow(checks) ==
  checks[CHOOSE i \in 1..Len(checks) :
           ~checks[i].ok /\ \A j \in 1..(i - 1) : checks[j].ok]

\* CommandBuildResult, or the Error build threw
BuildResult(argv, guardArgs) ==
  [ok |-> TRUE, argv |-> argv, guardArgs |-> guardArgs, message |-> <<>>]
\* variant of BuildThrow: the rejection is dropped
BuildThrowIgnored(message) ==
  [ok |-> TRUE, message |-> <<>>, argv |-> <<>>, guardArgs |-> <<>>]

BuildThrow(message) ==
  [ok |-> FALSE, argv |-> <<>>, guardArgs |-> <<>>, message |-> message]

\* argv.push(flag, value) when the optional value is present
PushIf(argv, present, flag, text) ==
  IF present THEN argv \o <<flag, text>> ELSE argv

-----------------------------------------------------------------------------
(* tools.ts: the catalogue and the build function of every tool            *)

READ_ONLY_TOOLS ==
  <<"markets_list", "markets_search", "markets_get", "clob_book",
    "clob_midpoint", "clob_price", "portfolio_positions">>

MUTATING_TOOLS ==
  <<"order_create_limit", "order_market", "order_cancel", "order_cancel_all",
    "approve_set", "ctf_split", "ctf_merge", "ctf_redeem">>

TOOL_SPECS == READ_ONLY_TOOLS \o MUTATING_TOOLS

ToolNames == {TOOL_SPECS[i] : i \in 1..Len(TOOL_SPECS)}

\* TOOL_MAP.get(name) finds a spec
getToolSpec(name) == name \in ToolNames

\* spec.mutating
Mutating(name) == \E i \in 1..Len(MUTATING_TOOLS) : MUTATING_TOOLS[i] = name

\* the field list each build hands to assertAllowedFields
AllowedFields(name) ==
  CASE name = "markets_list" -> {"limit", "active", "closed"}
    [] name = "markets_search" -> {"query", "limit"}
    [] name = "markets_get" -> {"market"}
    [] name = "clob_book" -> {"token"}
    [] name = "clob_midpoint" -> {"token"}
    [] name = "clob_price" -> {"token", "side"}
    [] name = "portfolio_positions" -> {"address"}
    [] name = "order_create_limit" ->
         {"token", "side", "price", "size", "postOnly", "orderType"}
    [] name = "order_market" -> {"token", "side", "amount"}
    [] name = "order_cancel" -> {"orderId"}
    [] name = "order_cancel_all" -> {}
    [] name = "approve_set" -> {}
    [] name = "ctf_split" -> {"condition", "amount"}
    [] name = "ctf_merge" -> {"condition", "amount"}
    [] name = "ctf_redeem" -> {"condition"}

BuildMarketsList(args) ==
  LET limit == maybePositiveNumber(Field(args, "limit"), "limit")
      active == maybeBool(Field(args, "active"), "active")
      closed == maybeBool(Field(args, "closed"), "closed")
      checks == <<limit, active, closed>>
  IN IF ~AllOk(checks) THEN BuildThrow(FirstThrow(checks).message)
     ELSE BuildResult(
            PushIf(PushIf(PushIf(<<"markets", "list">>,
                                 limit.v # Undefined, "--limit",
                                 NumberToString(limit.v)),
                          active.v # Undefined, "--active", toFlagBool(active.v)),
                   closed.v # Undefined, "--closed", toFlagBool(closed.v)),
            args)

BuildMarketsSearch(args) ==
  LET query == asString(Field(args, "query"), "query")
      limit == maybePositiveNumber(Field(args, "limit"), "limit")
      checks == <<query, limit>>
  IN IF ~AllOk(checks) THEN BuildThrow(FirstThrow(checks).message)
     ELSE BuildResult(
            PushIf(<<"markets", "search", query.v.s>>,
                   limit.v # Undefined, "--limit", NumberToString(limit.v)),
            [query |-> query.v, limit |-> limit.v])

\* markets_get, clob_book, clob_midpoint, portfolio_positions, order_cancel:
\* one required string that becomes the last word of the command
BuildOneString(args, field, command) ==
  LET value == asString(Field(args, field), field)
  IN IF ~value.ok THEN BuildThrow(value.message)
     ELSE BuildResult(command \o <<value.v.s>>, [k \in {field} |-> value.v])

BuildClobPrice(args) ==
  LET token == asString(Field(args, "token"), "token")
      side == asSide(Field(args, "side"), "side")
      checks == <<token, side>>
  IN IF ~AllOk(checks) THEN BuildThrow(FirstThrow(checks).message)
     ELSE BuildResult(<<"clob", "price", token.v.s, "--side", side.v.s>>,
                      [token |-> token.v, side |-> side.v])

BuildOrderCreateLimit(args) ==
  LET token == asString(Field(args, "token"), "token")
      side == asSide(Field(args, "side"), "side")
      price == asPositiveNumber(Field(args, "price"), "price")
      size == asPositiveNumber(Field(args, "size"), "size")
      postOnly == maybeBool(Field(args, "postOnly"), "postOnly")
      orderType == maybeString(Field(args, "orderType"), "orderType")
      code == IF orderType.ok /\ orderType.v # Undefined
              THEN asOrderType(orderType.v) ELSE Ok(Undefined)
      checks == <<token, side, price, size, postOnly, orderType, code>>
  IN IF ~AllOk(checks) THEN BuildThrow(FirstThrow(checks).message)
     ELSE BuildResult(
            PushIf(PushIf(<<"clob", "create-order", "--token", token.v.s,
                            "--side", side.v.s,
                            "--price", NumberToString(price.v),
                            "--size", NumberToString(size.v)>>,
                          postOnly.v # Undefined, "--post-only",
                          toFlagBool(postOnly.v)),
                   orderType.v # Undefined, "--order-type", code.v.s),
            [token |-> token.v, side |-> side.v, price |-> price.v,
             size |-> size.v, amount_usd |-> ToFixed(Times(price.v, size.v), 8),
             postOnly |-> postOnly.v, orderType |-> orderType.v])

BuildOrderMarket(args) ==
  LET token == asString(Field(args, "token"), "token")
      side == asSide(Field(args, "side"), "side")
      amount == asPositiveNumber(Field(args, "amount"), "amount")
      checks == <<token, side, amount>>
  IN IF ~AllOk(checks) THEN BuildThrow(FirstThrow(checks).message)
     ELSE BuildResult(<<"clob", "market-order", "--token", token.v.s,
                        "--side", side.v.s,
                        "--amount", NumberToString(amount.v)>>,
                      [token |-> token.v, side |-> side.v, amount |-> amount.v,
                       amount_usd |-> amount.v])

\* ctf_split and ctf_merge
BuildCtfAmount(args, verb) ==
  LET condition == asString(Field(args, "condition"), "condition")
      amount == asPositiveNumber(Field(args, "amount"), "amount")
      checks == <<condition, amount>>
  IN IF ~AllOk(checks) THEN BuildThrow(FirstThrow(checks).message)
     ELSE BuildResult(<<"ctf", verb, "--condition", condition.v.s,
                        "--amount", NumberToString(amount.v)>>,
                      [condition |-> condition.v, amount |-> amount.v,
                       amount_usd |-> amount.v])

BuildCtfRedeem(args) ==
  LET condition == asString(Field(args, "condition"), "condition")
  IN IF ~condition.ok THEN BuildThrow(condition.message)
     ELSE BuildResult(<<"ctf", "redeem", "--condition", condition.v.s>>,
                      [condition |-> condition.v])

\* spec.build(args) of the tool called name
Build(name, args) ==
  LET allowed == assertAllowedFields(args, AllowedFields(name))
  IN IF ~allowed.ok THEN BuildThrow(allowed.message)
     ELSE CASE name = "markets_list" -> BuildMarketsList(args)
            [] name = "markets_search" -> BuildMarketsSearch(args)
            [] name = "markets_get" ->
                 BuildOneString(args, "market", <<"markets", "get">>)
            [] name = "clob_book" ->
                 BuildOneString(args, "token", <<"clob", "book">>)
            [] name = "clob_midpoint" ->
                 BuildOneString(args, "token", <<"clob", "midpoint">>)
            [] name = "clob_price" -> BuildClobPrice(args)
            [] name = "portfolio_positions" ->
                 BuildOneString(args, "address", <<"data", "positions">>)
            [] name = "order_create_limit" -> BuildOrderCreateLimit(args)
            [] name = "order_market" -> BuildOrderMarket(args)
            [] name = "order_cancel" ->
                 BuildOneString(args, "orderId", <<"clob", "cancel">>)
            [] name = "order_cancel_all" ->
                 BuildResult(<<"clob", "cancel-all">>, <<>>)
            [] name = "approve_set" -> BuildResult(<<"approve", "set">>, <<>>)
            [] name = "ctf_split" -> BuildCtfAmount(args, "split")
            [] name = "ctf_merge" -> BuildCtfAmount(args, "merge")
            [] name = "ctf_redeem" -> BuildCtfRedeem(args)

-----------------------------------------------------------------------------
(* executor.ts: the argv the child is run with and the command preview     *)

\* variant of ensureJsonMode: the flag is put in front of every argv
ensureJsonModeAlways(argv) == <<"-o", "json">> \o argv

\* ensureJsonMode: argv, or argv behind '-o json' when no '--output' or
\* '-o' stands before its last place
ensureJsonMode(argv) ==
  IF \E i \in 1..(Len(argv) - 1) : argv[i] = "--output" \/ argv[i] = "-o"
  THEN argv
  ELSE <<"-o", "json">> \o argv

\* `${binaryPath} ${normalizedArgv.join(' ')}`, as its words
commandPreview(binaryPath, argv) == <<binaryPath>> \o ensureJsonMode(argv)

-----------------------------------------------------------------------------
(* runtime.ts: errors, results and the pure helpers of callTool            *)

UnknownToolCode == -32601
InvalidArgumentCode == -32602
PolicyDeniedCode == -32001
ApprovalRequiredCode == -32002
ExecutionFailedCode == -32003

\* binary.resolvedPath === null
NoPath == "<null>"
\* source: null
NoSource == "<null>"

\* a JSON object with the given fields
Obj(fields) == [t |-> "object", fields |-> fields]

\* new RuntimeError({code, message, data}); data <<>> when there is none
RuntimeError(code, message, data) ==
  [class |-> "RuntimeError", code |-> code, message |-> message, data |-> data]

\* any other thrown Error
PlainError(message) ==
  [class |-> "Error", code |-> 0, message |-> message, data |-> <<>>]

\* a thrown value that is no Error
ThrownValue(v) == [class |-> "value", code |-> 0, message |-> <<>>, data |-> v]

\* String(v) of a thrown value
StringOf(v) ==
  CASE v.t = "string" -> v.s
    [] v.t = "number" -> IF v.s # "" THEN v.s ELSE NumberToString(v)
    [] v.t = "boolean" -> IF v.n = 1 THEN "true" ELSE "false"
    [] v.t = "null" -> "null"
    [] v.t = "undefined" -> "undefined"
    [] OTHER -> "[object Object]"

NoResult == [kind |-> "none", error |-> <<>>, payload |-> <<>>]
Threw(error) == [kind |-> "threw", error |-> error, payload |-> <<>>]
Returned(payload) == [kind |-> "returned", error |-> <<>>, payload |-> payload]

NoDecision ==
  [decision |-> "none", reason |-> NoString, ruleId |-> NoString,
   approvalId |-> Undefined]

NoApproval == [status |-> NoString, resolvedBy |-> NoString]

\* variant of AsFiniteNumber: only values of number type count
AsFiniteNumberStrict(value) ==
  IF value.t = "number" /\ IsFinite(value) THEN value ELSE Null

\* runtime.ts asNumber: a finite number, the number a non-blank string
\* converts to, or null
AsFiniteNumber(value) ==
  IF value.t = "number" /\ IsFinite(value) THEN value
  ELSE IF value.t = "string" /\ Trim(value.s) # ""
       THEN (IF IsFinite(ToNumber(value)) THEN ToNumber(value) ELSE Null)
       ELSE Null

\* the first of midpoint, mid, price that is a number; null otherwise
extractMidpoint(value) ==
  IF value.t # "object" THEN Null
  ELSE LET row == value.fields
           midpoint == AsFiniteNumber(Field(row, "midpoint"))
           mid == AsFiniteNumber(Field(row, "mid"))
           price == AsFiniteNumber(Field(row, "price"))
       IN IF midpoint # Null THEN midpoint
          ELSE IF mid # Null THEN mid
          ELSE price

\* variants of UsableApprovalId: one hands the trimmed id on, one takes
\* any non-empty string
UsableApprovalIdTrimmed(d) ==
  IF d.approvalId.t = "string" /\ Trim(d.approvalId.s) # ""
  THEN Trim(d.approvalId.s)
  ELSE NoString

UsableApprovalIdUntrimmed(d) ==
  IF d.approvalId.t = "string" /\ d.approvalId.s # ""
  THEN d.approvalId.s
  ELSE NoString

\* the approvalId callTool will poll for, or NoString when there is none
UsableApprovalId(d) ==
  IF d.approvalId.t = "string" /\ Trim(d.approvalId.s) # ""
  THEN d.approvalId.s
  ELSE NoString

\* variant of PolicyBranch: a deny is not acted on
PolicyBranchIgnoringDeny(d) ==
  IF d.decision = "require_approval"
  THEN (IF d.approvalId.t = "string" /\ Trim(d.approvalId.s) # ""
        THEN "wait" ELSE "approval_required")
  ELSE "proceed"

\* which way callTool goes on a decision: throw PolicyDenied, throw
\* ApprovalRequired, wait for the approval, or go on to run the tool
PolicyBranch(d) ==
  IF d.decision = "deny" THEN "deny"
  ELSE IF d.decision = "require_approval"
       THEN (IF UsableApprovalId(d) = NoString THEN "approval_required"
             ELSE "wait")
       ELSE "proceed"

\* variant of PolicyDenied: reported as an execution failure
PolicyDeniedAsExecutionFailed(d) ==
  RuntimeError(ExecutionFailedCode,
               <<"Denied by policy: ", Coalesce(d.reason, "policy violation")>>,
               [ruleId |-> d.ruleId])

\* the errors callTool throws on a decision or a resolution
PolicyDenied(d) ==
  RuntimeError(PolicyDeniedCode,
               <<"Denied by policy: ", Coalesce(d.reason, "policy violation")>>,
               [ruleId |-> d.ruleId])

ApprovalRequired(d) ==
  RuntimeError(ApprovalRequiredCode,
               <<"Approval required: ", Coalesce(d.reason, "awaiting approval")>>,
               [ruleId |-> d.ruleId])

ApprovalNotGranted(d, resolution) ==
  RuntimeError(PolicyDeniedCode,
               <<"Denied by policy: ", "Approval ", resolution.status, ": ",
                 Coalesce(d.reason, "approval not granted")>>,
               [ruleId |-> d.ruleId, approvalId |-> UsableApprovalId(d),
                resolvedBy |-> resolution.resolvedBy])

ApprovalPollingFailed(d, message) ==
  RuntimeError(ExecutionFailedCode,
               <<"Approval polling failed: ", message>>,
               [ruleId |-> d.ruleId, approvalId |-> UsableApprovalId(d)])

\* variant of WaitCatch: whatever the poller threw is wrapped
WaitCatchWrappingAll(d, thrown) ==
  ApprovalPollingFailed(d, IF thrown.class = "value"
                           THEN StringOf(thrown.data)
                           ELSE thrown.message[1])

\* the catch around waitForApproval: a RuntimeError is thrown on as it is,
\* anything else is wrapped with its message, or with String(error)
WaitCatch(d, thrown) ==
  IF thrown.class = "RuntimeError" THEN thrown
  ELSE ApprovalPollingFailed(d, IF thrown.class = "Error"
                                THEN thrown.message[1]
                                ELSE StringOf(thrown.data))

\* variant of ApprovalGranted: everything but a denial counts
ApprovalGrantedUnlessDenied(resolution) == resolution.status # "denied"

\* what callTool does with the resolution the poller returned
ApprovalGranted(resolution) == resolution.status = "approved"

\* variant of EnvAllowsLiveTrades: any value opts in
EnvAllowsLiveTradesWhenSet == env.ALLOW_LIVE_TRADES # NoString

\* process.env.ALLOW_LIVE_TRADES opts in to live trading
EnvAllowsLiveTrades ==
  ToLowerCase(Coalesce(env.ALLOW_LIVE_TRADES, "")) = "true"

\* variant of SimulationEnabled: the configured default is not consulted
SimulationEnabledByOverrideOnly(simulationOverride) ==
  simulationOverride = Bool(TRUE)

\* simulationOverride ?? config.execution.simulationDefault
SimulationEnabled(simulationOverride) ==
  IF simulationOverride = Undefined \/ simulationOverride = Null
  THEN config.simulationDefault
  ELSE simulationOverride.n = 1

\* variant of resolveLiveState: a sell order is not held back by the gates
resolveLiveStateForBuysOnly(name, simulationOverride) ==
  IF ~Mutating(name) THEN [simulation |-> FALSE, reason |-> NoString]
  ELSE IF "side" \in DOMAIN call.args
          /\ ToLowerCase(Trim(call.args.side.s)) = "sell"
       THEN [simulation |-> FALSE, reason |-> NoString]
  ELSE IF SimulationEnabled(simulationOverride)
       THEN [simulation |-> TRUE, reason |-> "simulation mode enabled"]
  ELSE IF ~config.allowLiveTrades
       THEN [simulation |-> TRUE, reason |-> "live trading disabled in config"]
  ELSE IF ~EnvAllowsLiveTrades
       THEN [simulation |-> TRUE, reason |-> "ALLOW_LIVE_TRADES=true not set"]
  ELSE [simulation |-> FALSE, reason |-> NoString]

resolveLiveState(name, simulationOverride) ==
  IF ~Mutating(name) THEN [simulation |-> FALSE, reason |-> NoString]
  ELSE IF SimulationEnabled(simulationOverride)
       THEN [simulation |-> TRUE, reason |-> "simulation mode enabled"]
  ELSE IF ~config.allowLiveTrades
       THEN [simulation |-> TRUE, reason |-> "live trading disabled in config"]
  ELSE IF ~EnvAllowsLiveTrades
       THEN [simulation |-> TRUE, reason |-> "ALLOW_LIVE_TRADES=true not set"]
  ELSE [simulation |-> FALSE, reason |-> NoString]

\* variant of Simulates: the gates alone decide
SimulatesWhenGated(name, simulationOverride) ==
  \/ SimulationEnabled(simulationOverride)
  \/ ~config.allowLiveTrades
  \/ ~EnvAllowsLiveTrades

\* callTool simulates instead of executing
Simulates(name, simulationOverride) ==
  Mutating(name) /\ resolveLiveState(name, simulationOverride).simulation

\* variant of NeedsMidpoint: limit orders are not priced
NeedsMidpointMarketOnly(name) == name = "order_market"

\* simulate looks the reference price up for these tools
NeedsMidpoint(name) == name = "order_market" \/ name = "order_create_limit"

\* the token simulate probes with: guardArgs.token when it is a string
ProbeToken(guardArgs) ==
  IF Field(guardArgs, "token").t = "string" /\ Field(guardArgs, "token").s # ""
  THEN Field(guardArgs, "token").s
  ELSE NoString

\* the argv of the reference-price lookup
MidpointArgv(token) == <<"clob", "midpoint", token>>

\* the fields every simulation result starts with
\* variant of SimulationOut: the payload of a dry run leaves liveTrading on
SimulationOutLeavingLiveOn(name, b, binaryPath, reason) ==
  [simulation |-> TRUE, reason |-> reason, tool |-> name,
   command |-> <<binaryPath, "-o", "json">> \o b.argv,
   guardArgs |-> b.guardArgs, liveTrading |-> Mutating(name),
   marketReference |-> Undefined, estimatedShares |-> Undefined,
   estimatedNotionalUsd |-> Undefined, priceVsMidpoint |-> Undefined]

SimulationOut(name, b, binaryPath, reason) ==
  [simulation |-> TRUE, reason |-> reason, tool |-> name,
   command |-> <<binaryPath, "-o", "json">> \o b.argv,
   guardArgs |-> b.guardArgs, liveTrading |-> FALSE,
   marketReference |-> Undefined, estimatedShares |-> Undefined,
   estimatedNotionalUsd |-> Undefined, priceVsMidpoint |-> Undefined]

\* simulate after the midpoint lookup returned r
SimulationWithMidpoint(out, name, b, token, r) ==
  IF r.ok
  THEN LET midpoint == extractMidpoint(r.parsed)
           amount == AsFiniteNumber(Field(b.guardArgs, "amount"))
           price == AsFiniteNumber(Field(b.guardArgs, "price"))
           size == AsFiniteNumber(Field(b.guardArgs, "size"))
       IN [out EXCEPT
             !.marketReference =
               [token |-> token, midpoint |-> midpoint, raw |-> r.parsed],
             !.estimatedShares =
               IF name = "order_market" /\ amount # Null /\ midpoint # Null
                  /\ midpoint.n > 0
               THEN ToFixed(Over(amount, midpoint), 6) ELSE Undefined,
             !.estimatedNotionalUsd =
               IF name = "order_create_limit" /\ price # Null /\ size # Null
               THEN ToFixed(Times(price, size), 6) ELSE Undefined,
             !.priceVsMidpoint =
               IF name = "order_create_limit" /\ price # Null /\ midpoint # Null
               THEN ToFixed(Minus(price, midpoint), 6) ELSE Undefined]
  ELSE [out EXCEPT
          !.marketReference =
            [token |-> token,
             warning |-> IF r.stderr # "" THEN <<r.stderr>>
                         ELSE <<"midpoint lookup failed with code ",
                                NumberToString(Num(r.exitCode))>>]]

-----------------------------------------------------------------------------
(* runtime.ts: waitForApprovalFromCloud                                    *)

\* a body response.json() rejects
InvalidJson == [t |-> "invalid"]

HttpResponse(status, json, text) ==
  [kind |-> "response", status |-> status, json |-> json, text |-> text]

\* fetch rejected: a network-level failure
FetchRejected(message) ==
  [kind |-> "rejected", status |-> 0, json |-> InvalidJson, text |-> message]

\* no response handled yet
NoResponse == [kind |-> "none", status |-> 0, json |-> InvalidJson, text |-> ""]

\* response.ok
ResponseOk(response) == response.status >= 200 /\ response.status <= 299

\* variant of ClientError: only authorization failures end the wait
ClientErrorAuthOnly(response) == response.status = 401 \/ response.status = 403

\* response.status >= 400 && response.status < 500
ClientError(response) == response.status >= 400 /\ response.status < 500

\* toRecord: the fields of an object, none of anything else
toRecord(value) == IF value.t = "object" THEN value.fields ELSE <<>>

\* optionalString: the trimmed text of a non-blank string
optionalString(value) ==
  IF value.t # "string" THEN NoString
  ELSE IF Trim(value.s) = "" THEN NoString ELSE Trim(value.s)

\* variant of TerminalStatus: an expiry is not recognized
TerminalStatusWithoutExpired(status) ==
  status = "approved" \/ status = "denied"

\* the statuses that end the wait
TerminalStatus(status) ==
  status = "approved" \/ status = "denied" \/ status = "expired"

\* if (lastError): set and not the empty string
Truthy(message) == \E i \in 1..Len(message) : message[i] # ""

NoPoll ==
  [ppc |-> "off", now |-> 0, deadline |-> 0, lastError |-> <<>>,
   requests |-> 0, sleeps |-> 0, sleepMs |-> 0, last |-> NoResponse,
   recorded |-> FALSE]

\* how the loop body treats what fetch settled with
ResponseClass(response) ==
  IF response.kind = "rejected" THEN "network"
  ELSE IF ResponseOk(response)
       THEN (IF response.json = InvalidJson THEN "invalid_json"
             ELSE IF TerminalStatus(
                       optionalString(Field(toRecord(response.json), "status")))
                  THEN "terminal"
                  ELSE "pending")
  ELSE IF ClientError(response) THEN "client_error"
  ELSE "retryable"

\* the loop body assigns lastError on handling this response
RecordsError(response) ==
  ResponseClass(response) \in {"network", "invalid_json", "retryable"}

\* lastError after the loop body handled the response
NextLastError(response, lastError) ==
  LET class == ResponseClass(response)
  IN CASE class = "network" -> <<response.text>>
       [] class = "invalid_json" -> <<"Unexpected token in JSON">>
       [] class = "retryable" ->
            <<"status ", NumberToString(Num(response.status))>>
              \o (IF response.text # "" THEN <<": ", response.text>> ELSE <<>>)
       [] OTHER -> lastError

\* the resolution a terminal response is returned as
Resolution(response) ==
  LET body == toRecord(response.json)
  IN [status |-> optionalString(Field(body, "status")),
      resolvedBy |-> optionalString(Field(body, "resolvedBy"))]

ClientErrorThrown(response, approvalId) ==
  RuntimeError(ExecutionFailedCode,
               <<"Approval polling failed: status ",
                 NumberToString(Num(response.status)), ": ", response.text>>,
               [approvalId |-> approvalId])

\* what the loop throws once the deadline has passed
DeadlineThrown(lastError, approvalId) ==
  IF Truthy(lastError)
  THEN RuntimeError(ExecutionFailedCode,
                    <<"Approval polling failed: ">> \o lastError,
                    [approvalId |-> approvalId])
  ELSE RuntimeError(ApprovalRequiredCode,
                    <<"Approval required but timed out after ",
                      NumberToString(Num(pollConfig.timeoutMs \div 1000)), "s">>,
                    [approvalId |-> approvalId])

\* variant of SleepMs: the whole interval, whatever remains
SleepMsWholeInterval(remainingMs) == pollConfig.pollIntervalMs

\* the delay handed to sleep
SleepMs(remainingMs) ==
  IF pollConfig.pollIntervalMs < remainingMs
  THEN pollConfig.pollIntervalMs ELSE remainingMs

\* readApprovalPollingConfig finds an API key
\* variant of ApiKeyPresent: the key is not trimmed before it is tested
ApiKeyPresentUntrimmed == env.apiKey # NoString /\ env.apiKey # ""

ApiKeyPresent ==
  env.apiKey # NoString /\ Trim(env.apiKey) # ""

-----------------------------------------------------------------------------
(* tools.ts: resolvePolymarketBinary.  A directory is the tuple of its     *)
(* segments and a file path is text; a path or command a caller wrote is   *)
(* held as [text, absolute, segs], its text with the parse path.resolve    *)
(* and path.isAbsolute make of it.  POSIX: one suffix, ':' between the     *)
(* entries of PATH, which is held as the sequence of its entries.          *)

\* the text of the absolute path with these segments
RECURSIVE PathOf(_)
PathOf(segs) ==
  IF segs = <<>> THEN "/"
  ELSE IF Len(segs) = 1 THEN "/" \o segs[1]
  ELSE PathOf(SubSeq(segs, 1, Len(segs) - 1)) \o "/" \o segs[Len(segs)]

\* variant of uniq: every occurrence is kept
uniqKeepingAll(items) == items

\* Array.from(new Set(items)): the first occurrence of every item, in order
uniq(items) ==
  LET kept[i \in 0..Len(items)] ==
        IF i = 0 THEN <<>>
        ELSE IF \E j \in 1..(i - 1) : items[j] = items[i] THEN kept[i - 1]
        ELSE Append(kept[i - 1], items[i])
  IN kept[Len(items)]

\* variant of Scan: the last candidate isExecutable accepts is taken
ScanToLast(candidates, executables) ==
  LET hits == {i \in 1..Len(candidates) : candidates[i] \in executables}
      last == CHOOSE i \in hits : \A j \in hits : j <= i
  IN IF hits = {} THEN [resolved |-> NoPath, checked |-> candidates]
     ELSE [resolved |-> candidates[last], checked |-> candidates]

\* the candidates up to and with the first one isExecutable accepts, and
\* that one (NoPath when there is none)
Scan(candidates, executables) ==
  LET hits == {i \in 1..Len(candidates) : candidates[i] \in executables}
      first == CHOOSE i \in hits : \A j \in hits : i <= j
  IN IF hits = {} THEN [resolved |-> NoPath, checked |-> candidates]
     ELSE [resolved |-> candidates[first],
           checked |-> SubSeq(candidates, 1, first)]

resolveCommandOnPath(command, envPath, executables) ==
  LET dirs == SelectSeq(envPath, LAMBDA dir : dir # "")
  IN Scan([i \in 1..Len(dirs) |-> dirs[i] \o "/" \o command], executables)

resolvePathCandidates(candidate, baseDir, cwd) ==
  IF candidate.absolute THEN <<candidate.text>>
  ELSE uniq(<<PathOf(baseDir \o candidate.segs), PathOf(cwd \o candidate.segs)>>)

\* the lookup queue of resolvePolymarketBinary, each item with its type
lookupQueue(options) ==
  LET Parent(dir) == IF dir = <<>> THEN dir ELSE SubSeq(dir, 1, Len(dir) - 1)
      roots == uniq(<<options.baseDir, options.cwd,
                      Parent(options.baseDir), Parent(options.cwd),
                      Parent(Parent(options.baseDir)),
                      Parent(Parent(options.cwd))>>)
      Local(root, source, kind) ==
        [source |-> source, type |-> "path",
         candidate |-> [text |-> PathOf(root \o <<"target", kind, "polymarket">>),
                        absolute |-> TRUE,
                        segs |-> root \o <<"target", kind, "polymarket">>]]
      Item(source, candidate) ==
        [source |-> source, candidate |-> candidate,
         type |-> IF Len(candidate.segs) > 1 \/ candidate.absolute
                  THEN "path" ELSE "command"]
      envBinary == options.env.POLYMARKET_BINARY_PATH
  IN (IF envBinary.text = NoString \/ Trim(envBinary.text) = "" THEN <<>>
      ELSE <<Item("env", envBinary)>>)
     \o (IF Trim(options.requestedPath.text) \in {"", "auto"} THEN <<>>
         ELSE <<Item("config", options.requestedPath)>>)
     \o <<[source |-> "path", type |-> "command",
           candidate |-> [text |-> "polymarket", absolute |-> FALSE,
                          segs |-> <<"polymarket">>]]>>
     \o [i \in 1..(2 * Len(roots)) |->
           IF i % 2 = 1 THEN Local(roots[(i + 1) \div 2], "workspace-release",
                                   "release")
           ELSE Local(roots[i \div 2], "workspace-debug", "debug")]

\* the for loop over the queue from item i on, checkedPaths so far
RECURSIVE Lookup(_, _, _, _)
Lookup(queue, i, checkedPaths, options) ==
  IF i > Len(queue)
  THEN [resolvedPath |-> NoPath, source |-> NoSource,
        checkedPaths |-> uniq(checkedPaths)]
  ELSE LET item == queue[i]
           found ==
             IF item.type = "command"
             THEN resolveCommandOnPath(item.candidate.text, options.env.PATH,
                                       options.executables)
             ELSE Scan(resolvePathCandidates(item.candidate, options.baseDir,
                                             options.cwd),
                       options.executables)
       IN IF found.resolved # NoPath
          THEN [resolvedPath |-> found.resolved, source |-> item.source,
                checkedPaths |-> uniq(checkedPaths \o found.checked)]
          ELSE Lookup(queue, i + 1, checkedPaths \o found.checked, options)

\* options carries, beside requestedPath, baseDir, cwd and env, the files
\* isExecutable accepts
resolvePolymarketBinary(options) ==
  LET found == Lookup(lookupQueue(options), 1, <<>>, options)
  IN [requestedPath |-> IF Trim(options.requestedPath.text) = "" THEN "auto"
                        ELSE Trim(options.requestedPath.text),
      resolvedPath |-> found.resolvedPath,
      source |-> found.source,
      checkedPaths |-> found.checkedPaths]

\* the paths and commands a configuration or POLYMARKET_BINARY_PATH may hold
Written ==
  [unset |-> [text |-> NoString, absolute |-> FALSE, segs |-> <<>>],
   blank |-> [text |-> "   ", absolute |-> FALSE, segs |-> <<>>],
   auto |-> [text |-> "auto", absolute |-> FALSE, segs |-> <<"auto">>],
   path |-> [text |-> "/opt/pm", absolute |-> TRUE, segs |-> <<"opt", "pm">>],
   relative |-> [text |-> "bin/pm", absolute |-> FALSE, segs |-> <<"bin", "pm">>],
   command |-> [text |-> "polymarket", absolute |-> FALSE,
                segs |-> <<"polymarket">>]]

\* the hosts a runtime configured in baseDir may be created on: what the
\* configuration and POLYMARKET_BINARY_PATH hold, the working directory
\* and PATH; no file is executable yet
Hosts(baseDir) ==
  { [requestedPath |-> Written[r], baseDir |-> baseDir, cwd |-> c,
     env |-> [POLYMARKET_BINARY_PATH |-> Written[e], PATH |-> p],
     executables |-> {}] :
      r \in {"blank", "auto", "relative", "command"},
      e \in {"unset", "path", "relative", "command"},
      c \in {<<>>, <<"w", "app">>, <<"h">>},
      p \in {<<>>, <<"/usr/local/bin", "", "/usr/bin">>} }

\* the executable files of a host: none, one or two of the files the
\* resolver may look at there
Executables(h) ==
  LET checked == resolvePolymarketBinary(h).checkedPaths
      looked == {checked[i] : i \in 1..Len(checked)}
  IN {{}} \cup { {y, z} : y, z \in looked }

\* no resolution has been asked for
NoHost ==
  [requestedPath |-> Written.auto, baseDir |-> <<>>, cwd |-> <<>>,
   env |-> [POLYMARKET_BINARY_PATH |-> Written.unset, PATH |-> <<>>],
   executables |-> {}]

-----------------------------------------------------------------------------
(* The inputs the environment may supply                                   *)

\* the argument bags a caller sends with each tool name
ArgBags(name) ==
  CASE name = "markets_list" ->
         << <<>>, [limit |-> Num(5), active |-> Bool(TRUE)], [limit |-> Num(0)] >>
    [] name = "markets_search" ->
         << [query |-> Str("btc"), limit |-> Str("2")], [query |-> Str("   ")] >>
    [] name = "markets_get" ->
         << [market |-> Str("abc")],
            [market |-> Str("abc"), unexpected |-> Bool(TRUE)] >>
    [] name = "clob_book" -> << [token |-> Str("1")] >>
    [] name = "clob_midpoint" -> << [token |-> Str(" 2 ")] >>
    [] name = "clob_price" ->
         << [token |-> Str("1"), side |-> Str("BUY")],
            [token |-> Str("1"), side |-> Str("HOLD")] >>
    [] name = "portfolio_positions" -> << [address |-> Str("0xabc")] >>
    [] name = "order_create_limit" ->
         << [token |-> Str("1"), side |-> Str("buy"), price |-> Rat(1, 2),
             size |-> Num(10)],
            [token |-> Str(" 2 "), side |-> Str(" SELL"), price |-> Num(2),
             size |-> Num(5), postOnly |-> Bool(TRUE), orderType |-> Str(" gtc ")],
            [token |-> Str("1"), side |-> Str("buy"), price |-> Rat(1, 2),
             size |-> Num(10), orderType |-> Str("ioc")],
            [token |-> Str("1"), side |-> Str("buy"), price |-> Num(0),
             size |-> Num(10)] >>
    [] name = "order_market" ->
         << [token |-> Str("1"), side |-> Str("buy"), amount |-> Num(20)],
            [token |-> Str(" 2 "), side |-> Str("Sell"), amount |-> Str("5")],
            [token |-> Str("1"), side |-> Str("buy"), amount |-> Infinity],
            [token |-> Num(1), side |-> Str("buy"), amount |-> Num(20)] >>
    [] name = "order_cancel" -> << [orderId |-> Str("ord1")], <<>> >>
    [] name = "order_cancel_all" -> << <<>>, [unexpected |-> Bool(TRUE)] >>
    [] name = "approve_set" -> << <<>> >>
    [] name = "ctf_split" ->
         << [condition |-> Str("c1"), amount |-> Num(5)],
            [condition |-> Str("c1"), amount |-> NaN] >>
    [] name = "ctf_merge" -> << [condition |-> Str("c1"), amount |-> Num(2)] >>
    [] name = "ctf_redeem" -> << [condition |-> Str("c1")], [condition |-> Null] >>
    [] OTHER -> << <<>> >>

\* the names a caller may ask for: the catalogue and names outside it
RequestedNames == ToolNames \cup {"wallet_import"}

\* the simulationOverride the server passes on: absent, on, off
Overrides == {Undefined, Bool(TRUE), Bool(FALSE)}

Decision(verdict, reason, ruleId, approvalId) ==
  [decision |-> verdict, reason |-> reason, ruleId |-> ruleId,
   approvalId |-> approvalId]

\* the decisions the policy collaborator may return
Decisions ==
  { Decision("allow", NoString, NoString, Undefined),
    Decision("deny", NoString, NoString, Undefined),
    Decision("deny", "budget exceeded", "rule-1", Undefined),
    Decision("require_approval", "high amount", "rule-2", Undefined),
    Decision("require_approval", NoString, NoString, Num(123)),
    Decision("require_approval", NoString, "rule-2", Str("")),
    Decision("require_approval", "high amount", NoString, Str("   ")),
    Decision("require_approval", "needs review", "rule-2", Str("apr_1")),
    Decision("require_approval", NoString, NoString, Str(" apr_2 ")) }

\* what an injected waitForApproval may resolve with
Resolutions ==
  { [status |-> "approved", resolvedBy |-> "tester"],
    [status |-> "denied", resolvedBy |-> "reviewer"],
    [status |-> "expired", resolvedBy |-> NoString] }

\* what an injected waitForApproval may reject with
WaitFailures ==
  { PlainError(<<"approval backend down">>),
    ThrownValue(Str("timeout")),
    ThrownValue(Null),
    RuntimeError(ApprovalRequiredCode, <<"Approval queue is closed">>,
                 [queue |-> "closed"]) }

\* what the approval service may answer, or how the request may fail
Responses ==
  << HttpResponse(200, Obj([status |-> Str("approved"),
                            resolvedBy |-> Str("alice")]), ""),
     HttpResponse(200, Obj([status |-> Str("denied"),
                            resolvedBy |-> Str("bob")]), ""),
     HttpResponse(201, Obj([status |-> Str(" expired ")]), ""),
     HttpResponse(200, Obj([status |-> Str("pending")]), ""),
     HttpResponse(200, Obj([resolvedBy |-> Str("alice")]), ""),
     HttpResponse(200, InvalidJson, "<html>"),
     HttpResponse(403, InvalidJson, "access_denied"),
     HttpResponse(404, InvalidJson, ""),
     HttpResponse(500, InvalidJson, "oops"),
     HttpResponse(302, InvalidJson, ""),
     FetchRejected("ECONNRESET"),
     FetchRejected("") >>

\* what execute may resolve with
ExecutionResultOf(ok, exitCode, errorText, parsed) ==
  [ok |-> ok, exitCode |-> exitCode, stderr |-> errorText, parsed |-> parsed]

\* execute has not resolved for the tool's own command
NoExecution == ExecutionResultOf(FALSE, 0, "<pending>", Undefined)

\* what execute may resolve with for the tool's own command
ExecutionResults ==
  << ExecutionResultOf(TRUE, 0, "", Obj([markets |-> Str("[]")])),
     ExecutionResultOf(FALSE, 1, "boom", Null),
     ExecutionResultOf(FALSE, -1, "", Null) >>

\* what execute may resolve with for the midpoint lookup
ProbeResults ==
  << ExecutionResultOf(TRUE, 0, "", Obj([midpoint |-> Rat(1, 2)])),
     ExecutionResultOf(TRUE, 0, "", Obj([mid |-> Str("0.5"), price |-> Num(2)])),
     ExecutionResultOf(TRUE, 0, "", Obj([price |-> Num(0)])),
     ExecutionResultOf(TRUE, 0, "", Obj([midpoint |-> Null, price |-> Num(3)])),
     ExecutionResultOf(TRUE, 0, "", Str("not json")),
     ExecutionResultOf(FALSE, 1, "boom", Null),
     ExecutionResultOf(FALSE, -1, "", Null) >>

\* the requests a caller makes: every sample bag of every name under an
\* injected waitForApproval; one read-only tool, one tool simulate probes
\* for and one it does not while the cloud poller is installed (the poller
\* never reads the tool or its arguments)
Requests(waitForApproval) ==
  IF waitForApproval = "cloud"
  THEN { [name |-> n, bag |-> 1] :
           n \in {"markets_list", "order_market", "order_cancel"} }
  ELSE { [name |-> n, bag |-> i] : n \in RequestedNames, i \in 1..4 }

-----------------------------------------------------------------------------
(* The runtime as a state machine: one callTool in flight at a time        *)

\* a runtime as its constructor leaves it
\* tools.ts profileAgentId: `profile/${profile}`
profileAgentId(profile) == <<"profile/", profile>>

\* the identifiers the constructor sets: now is Date.now().toString(36)
NewSession(now, profile) ==
  [sessionId |-> <<"session-", now>>, agentId |-> profileAgentId(profile)]

Setup(sd, al, e, key, path, wait, interval, timeout) ==
  [config |-> [simulationDefault |-> sd, allowLiveTrades |-> al,
               apiKeyEnv |-> "VETO_API_KEY"],
   env |-> [ALLOW_LIVE_TRADES |-> e, apiKey |-> key],
   binary |-> [requestedPath |-> "polymarket", resolvedPath |-> path,
               source |-> IF path = NoPath THEN NoSource ELSE "path",
               available |-> path # NoPath,
               checkedPaths |-> IF path = NoPath
                                THEN <<"/usr/local/bin/polymarket",
                                       "/usr/bin/polymarket">>
                                ELSE <<path>>],
   deps |-> [waitForApproval |-> wait],
   session |-> NewSession("0", "defaults"),
   pollConfig |-> [pollIntervalMs |-> interval, timeoutMs |-> timeout]]

\* the gates shut (the defaults) and the gates open
GateSamples ==
  { [sd |-> TRUE, al |-> FALSE, e |-> NoString],
    [sd |-> FALSE, al |-> TRUE, e |-> "true"] }

\* the runtimes the model starts from: with an injected waitForApproval,
\* every combination of the live gates over a resolved binary and the two
\* gate samples over an unresolved one; with the cloud poller, the gate
\* samples under every polling configuration and under a missing API key
Setups ==
  { Setup(sd, al, e, NoString, "/usr/bin/polymarket", "injected", 1, 1) :
      sd \in BOOLEAN, al \in BOOLEAN, e \in {NoString, "true", "TRUE", "1"} }
  \cup
  { Setup(g.sd, g.al, g.e, NoString, NoPath, "injected", 1, 1) :
      g \in GateSamples }
  \cup
  { Setup(g.sd, g.al, g.e, "veto_key", "/usr/bin/polymarket", "cloud", i, t) :
      g \in GateSamples, i \in 1..MaxPollIntervalMs, t \in 1..MaxTimeoutMs }
  \cup
  { Setup(TRUE, FALSE, NoString, key, path, "cloud", 1, 1) :
      key \in {NoString, "", "   ", "veto_key"},
      path \in {NoPath, "/usr/bin/polymarket"} }

\* no callTool is in flight
NoCall == [toolName |-> "", args |-> <<>>, simulationOverride |-> Undefined]

\* no process spawned
NoChild == [program |-> "none", argv |-> <<>>, state |-> "none",
            code |-> Null,
            signals |-> {}, kills |-> <<>>, outChunks |-> 0,
            errChunks |-> 0, errored |-> FALSE, closed |-> FALSE]

\* the promise is still pending
NotSettled == [ok |-> FALSE, exitCode |-> 0, stdout |-> <<"<pending>">>,
               stderr |-> <<>>, parsed |-> [t |-> "undefined", text |-> <<>>],
               argv |-> <<>>, commandPreview |-> <<>>]

\* no request awaited by handleRpc
NoRequest == [jsonrpc |-> "", id |-> Undefined, method |-> "",
              params |-> Undefined]

\* a 'data' handler that is not running: no lines left, no request awaited
NoLoop == [lines |-> <<>>, req |-> NoRequest]

\* a runtime constructed over one setup, before its first callTool
RuntimeAt(setup) ==
  /\ config = setup.config
  /\ env = setup.env
  /\ binary = setup.binary
  /\ deps = setup.deps
  /\ pollConfig = setup.pollConfig
  /\ pc = "idle"
  /\ call = NoCall
  /\ built = BuildThrow(<<>>)
  /\ decision = NoDecision
  /\ approval = NoApproval
  /\ result = NoResult
  /\ guardCalls = <<>>
  /\ waitCalls = <<>>
  /\ execCalls = <<>>
  /\ simCalls = 0
  /\ poll = NoPoll
  /\ execution = NoExecution
  /\ failures = 0
  /\ host = NoHost
  /\ session = setup.session
  /\ other = [pc |-> "idle", call |-> NoCall, built |-> BuildThrow(<<>>),
              decision |-> NoDecision, approval |-> NoApproval,
              result |-> NoResult, guardCalls |-> <<>>, waitCalls |-> <<>>,
              execCalls |-> <<>>, simCalls |-> 0, poll |-> NoPoll,
              execution |-> NoExecution]
  /\ listed = [names |-> <<>>, failures |-> 0]
  /\ doctor = [dpc |-> "idle", report |-> <<>>]
  /\ serveOptions = [simulationOverride |-> Undefined]
  /\ stdin = [read |-> <<>>, unread |-> <<>>, first |-> 0]
  /\ lineBuffer = <<>>
  /\ loop = NoLoop
  /\ parked = NoLoop
  /\ replies = <<>>

\* no executePolymarket call in flight: nothing spawned, nothing buffered
Init ==
  /\ \E setup \in Setups : RuntimeAt(setup)
  /\ spawned = [binaryPath |-> NoPath, argv |-> <<>>,
                options |-> [timeoutMs |-> 0, maxOutputBytes |-> 0]]
  /\ child = NoChild
  /\ stdout = <<>>
  /\ stderr = <<>>
  /\ outputTooLarge = FALSE
  /\ timer = "none"
  /\ settled = NotSettled

Fixed ==
  UNCHANGED <<config, env, binary, deps, pollConfig, host, session, other,
              listed, doctor, serverVars, executorVars>>

\* callTool throws or returns: the call is over
Finish(outcome) ==
  /\ pc' = "done"
  /\ result' = outcome
  /\ UNCHANGED <<execCalls, simCalls>>

\* this.execute(binaryPath, argv, ...) is called and awaited at position at
Execute(argv, at) ==
  /\ execCalls' = Append(execCalls, [binaryPath |-> binary.resolvedPath,
                                     argv |-> argv])
  /\ pc' = at
  /\ UNCHANGED result

\* binaryFixes: the remediation hints
binaryFixes ==
  <<"Install Polymarket CLI globally (for macOS/Linux: 'brew install polymarket').",
    "Or build this repo binary: 'cargo build --release' and use './target/release/polymarket'.",
    "Or set POLYMARKET_BINARY_PATH to a valid executable.",
    "Or set polymarket.binaryPath in veto-agent/polymarket-veto.config.yaml.">>

\* binaryMissingMessage
binaryMissingMessage ==
  <<"Polymarket CLI binary not found.", " requested='", binary.requestedPath,
    "'", " checked=", NumberToString(Num(Len(binary.checkedPaths))),
    " Run 'polymarket-veto-mcp doctor' for detailed diagnostics.">>

\* what requireBinaryPath throws when nothing was resolved
BinaryUnavailable ==
  RuntimeError(ExecutionFailedCode, binaryMissingMessage,
               [requestedPath |-> binary.requestedPath,
                checkedPaths |-> binary.checkedPaths,
                fixes |-> binaryFixes])

\* variant of RunTool: a simulation does not ask for the binary
RunToolUnlessSimulated ==
  IF Simulates(call.toolName, call.simulationOverride)
  THEN /\ simCalls' = simCalls + 1
       /\ pc' = "done"
       /\ result' = Returned([simulation |-> TRUE])
       /\ UNCHANGED execCalls
  ELSE IF binary.resolvedPath = NoPath
       THEN Finish(Threw(BinaryUnavailable))
       ELSE /\ Execute(built.argv, "exec")
            /\ UNCHANGED simCalls

\* callTool from requireBinaryPath on: lines 318-338 and the start of simulate
RunTool ==
  IF binary.resolvedPath = NoPath
  THEN Finish(Threw(BinaryUnavailable))
  ELSE IF Simulates(call.toolName, call.simulationOverride)
       THEN /\ simCalls' = simCalls + 1
            /\ IF NeedsMidpoint(call.toolName)
                  /\ ProbeToken(built.guardArgs) # NoString
               THEN /\ execCalls' =
                         Append(execCalls,
                                [binaryPath |-> binary.resolvedPath,
                                 argv |-> MidpointArgv(ProbeToken(built.guardArgs))])
                    /\ pc' = "probe"
                    /\ UNCHANGED result
               ELSE /\ pc' = "done"
                    /\ result' =
                         Returned(SimulationOut(
                           call.toolName, built, binary.resolvedPath,
                           resolveLiveState(call.toolName,
                                            call.simulationOverride).reason))
                    /\ UNCHANGED execCalls
       ELSE /\ Execute(built.argv, "exec")
            /\ UNCHANGED simCalls

\* callTool once waitForApproval resolved: lines 305-316, then the tool
AfterApproval(resolution) ==
  /\ approval' = resolution
  /\ IF ApprovalGranted(resolution)
     THEN RunTool
     ELSE Finish(Threw(ApprovalNotGranted(decision, resolution)))

\* { ...built.guardArgs, timestamp: new Date().toISOString() }
Stamped(guardArgs) ==
  [k \in DOMAIN guardArgs \cup {"timestamp"} |->
     IF k = "timestamp" THEN Str("<now>") ELSE guardArgs[k]]

\* callTool up to the guard call: lookup, build, guard.guard(...)
Invoke(toolName, args, simulationOverride) ==
  /\ call' = [toolName |-> toolName, args |-> args,
              simulationOverride |-> simulationOverride]
  /\ IF ~getToolSpec(toolName)
     THEN /\ built' = BuildThrow(<<>>)
          /\ guardCalls' = <<>>
          /\ pc' = "done"
          /\ result' = Threw(RuntimeError(UnknownToolCode,
                                          <<"Unknown tool '", toolName, "'">>,
                                          <<>>))
     ELSE /\ built' = Build(toolName, args)
          /\ IF ~built'.ok
             THEN /\ guardCalls' = <<>>
                  /\ pc' = "done"
                  /\ result' = Threw(RuntimeError(InvalidArgumentCode,
                                                  built'.message, <<>>))
             ELSE /\ guardCalls' = <<[toolName |-> toolName,
                                      guardArgs |-> Stamped(built'.guardArgs)]>>
                  /\ pc' = "guard"
                  /\ result' = NoResult
  /\ UNCHANGED <<decision, approval, waitCalls, execCalls, simCalls, poll>>
  /\ UNCHANGED <<execution, failures>>

\* a caller of the runtime starts a callTool
CallTool(toolName, args, simulationOverride) ==
  /\ pc = "idle"
  /\ Invoke(toolName, args, simulationOverride)
  /\ Fixed

\* the locals of a callTool that returned or threw are gone
Leave ==
  /\ pc' = "idle"
  /\ call' = NoCall
  /\ built' = BuildThrow(<<>>)
  /\ decision' = NoDecision
  /\ approval' = NoApproval
  /\ result' = NoResult
  /\ guardCalls' = <<>>
  /\ waitCalls' = <<>>
  /\ execCalls' = <<>>
  /\ simCalls' = 0
  /\ poll' = NoPoll
  /\ execution' = NoExecution
  /\ failures' = IF result = Threw(BinaryUnavailable) /\ failures < MaxFailures
                 THEN failures + 1 ELSE failures

\* the caller took the outcome of the call; the runtime is ready for the next
Settle ==
  /\ pc = "done"
  /\ Leave
  /\ Fixed

\* waitForApprovalFromCloud up to its first fetch: the configuration is
\* read, the deadline set and the first request issued
StartPolling ==
  IF ~ApiKeyPresent
  THEN /\ poll' = [NoPoll EXCEPT !.ppc = "threw"]
       /\ pc' = "done"
       /\ result' = Threw(RuntimeError(
            ApprovalRequiredCode,
            <<"Approval required but ", config.apiKeyEnv,
              " is not set for cloud polling">>, <<>>))
  ELSE /\ poll' = [NoPoll EXCEPT !.ppc = "fetch",
                                 !.deadline = pollConfig.timeoutMs,
                                 !.requests = 1]
       /\ pc' = "approval"
       /\ UNCHANGED result

\* the guard resolved with decision d: callTool branches on it
GuardReturns(d) ==
  /\ pc = "guard"
  /\ decision' = d
  /\ CASE PolicyBranch(d) = "deny" ->
            /\ Finish(Threw(PolicyDenied(d)))
            /\ UNCHANGED <<approval, waitCalls, poll>>
       [] PolicyBranch(d) = "approval_required" ->
            /\ Finish(Threw(ApprovalRequired(d)))
            /\ UNCHANGED <<approval, waitCalls, poll>>
       [] PolicyBranch(d) = "wait" ->
            /\ waitCalls' = Append(waitCalls, UsableApprovalId(d))
            /\ IF deps.waitForApproval = "injected"
               THEN pc' = "approval" /\ UNCHANGED <<result, poll>>
               ELSE StartPolling
            /\ UNCHANGED <<approval, execCalls, simCalls>>
       [] OTHER ->
            /\ RunTool
            /\ UNCHANGED <<approval, waitCalls, poll>>
  /\ UNCHANGED <<call, built, guardCalls>>
  /\ UNCHANGED <<execution, failures>>
  /\ Fixed

\* the guard rejected with thrown: callTool does not catch it
GuardThrows(thrown) ==
  /\ pc = "guard"
  /\ Finish(Threw(thrown))
  /\ UNCHANGED <<call, built, decision, approval, guardCalls, waitCalls, poll>>
  /\ UNCHANGED <<execution, failures>>
  /\ Fixed

\* the injected waitForApproval resolved
WaitResolves(resolution) ==
  /\ pc = "approval"
  /\ deps.waitForApproval = "injected"
  /\ AfterApproval(resolution)
  /\ UNCHANGED <<call, built, decision, guardCalls, waitCalls, poll>>
  /\ UNCHANGED <<execution, failures>>
  /\ Fixed

\* the injected waitForApproval rejected with thrown
WaitRejects(thrown) ==
  /\ pc = "approval"
  /\ deps.waitForApproval = "injected"
  /\ Finish(Threw(WaitCatch(decision, thrown)))
  /\ UNCHANGED <<call, built, decision, approval, guardCalls, waitCalls, poll>>
  /\ UNCHANGED <<execution, failures>>
  /\ Fixed

\* variant of FetchSettles: the deadline is looked at before the response
FetchSettlesDeadlineFirst(response, elapsed) ==
  /\ pc = "approval"
  /\ deps.waitForApproval = "cloud"
  /\ poll.ppc = "fetch"
  /\ LET class == ResponseClass(response)
         now == poll.now + elapsed
         lastError == NextLastError(response, poll.lastError)
         remainingMs == poll.deadline - now
         seen == [poll EXCEPT !.now = now, !.lastError = lastError,
                              !.last = response,
                              !.recorded = @ \/ RecordsError(response)]
         \* the locals of the poller are gone once it returned or threw
         over == [seen EXCEPT !.lastError = <<>>, !.sleepMs = 0]
     IN CASE remainingMs <= 0 ->
               /\ poll' = [over EXCEPT !.ppc = "threw"]
               /\ Finish(Threw(DeadlineThrown(lastError,
                                              UsableApprovalId(decision))))
               /\ UNCHANGED approval
          [] class = "terminal" ->
               /\ poll' = [over EXCEPT !.ppc = "returned"]
               /\ AfterApproval(Resolution(response))
          [] class = "client_error" ->
               /\ poll' = [over EXCEPT !.ppc = "threw"]
               /\ Finish(Threw(ClientErrorThrown(response,
                                                 UsableApprovalId(decision))))
               /\ UNCHANGED approval
          [] OTHER ->
               IF remainingMs <= 0
               THEN /\ poll' = [over EXCEPT !.ppc = "threw"]
                    /\ Finish(Threw(DeadlineThrown(lastError,
                                                   UsableApprovalId(decision))))
                    /\ UNCHANGED approval
               ELSE /\ poll' = [seen EXCEPT !.ppc = "sleep",
                                            !.sleeps = @ + 1,
                                            !.sleepMs = SleepMs(remainingMs)]
                    /\ UNCHANGED <<pc, result, approval, execCalls, simCalls>>
  /\ UNCHANGED <<call, built, decision, guardCalls, waitCalls>>
  /\ UNCHANGED <<execution, failures>>
  /\ Fixed

\* the request in flight settled after elapsed ms: one pass of the loop
\* body, from the await of fetch to the return, the throw or the sleep
FetchSettles(response, elapsed) ==
  /\ pc = "approval"
  /\ deps.waitForApproval = "cloud"
  /\ poll.ppc = "fetch"
  /\ LET class == ResponseClass(response)
         now == poll.now + elapsed
         lastError == NextLastError(response, poll.lastError)
         remainingMs == poll.deadline - now
         seen == [poll EXCEPT !.now = now, !.lastError = lastError,
                              !.last = response,
                              !.recorded = @ \/ RecordsError(response)]
         \* the locals of the poller are gone once it returned or threw
         over == [seen EXCEPT !.lastError = <<>>, !.sleepMs = 0]
     IN CASE class = "terminal" ->
               /\ poll' = [over EXCEPT !.ppc = "returned"]
               /\ AfterApproval(Resolution(response))
          [] class = "client_error" ->
               /\ poll' = [over EXCEPT !.ppc = "threw"]
               /\ Finish(Threw(ClientErrorThrown(response,
                                                 UsableApprovalId(decision))))
               /\ UNCHANGED approval
          [] OTHER ->
               IF remainingMs <= 0
               THEN /\ poll' = [over EXCEPT !.ppc = "threw"]
                    /\ Finish(Threw(DeadlineThrown(lastError,
                                                   UsableApprovalId(decision))))
                    /\ UNCHANGED approval
               ELSE /\ poll' = [seen EXCEPT !.ppc = "sleep",
                                            !.sleeps = @ + 1,
                                            !.sleepMs = SleepMs(remainingMs)]
                    /\ UNCHANGED <<pc, result, approval, execCalls, simCalls>>
  /\ UNCHANGED <<call, built, decision, guardCalls, waitCalls>>
  /\ UNCHANGED <<execution, failures>>
  /\ Fixed

\* the sleep timer fired, late ms after its delay: the next request goes out
SleepEnds(late) ==
  /\ pc = "approval"
  /\ poll.ppc = "sleep"
  /\ poll' = [poll EXCEPT !.ppc = "fetch", !.now = @ + poll.sleepMs + late,
                          !.requests = @ + 1]
  /\ UNCHANGED <<pc, call, built, decision, approval, result, guardCalls,
                 waitCalls, execCalls, simCalls>>
  /\ UNCHANGED <<execution, failures>>
  /\ Fixed

\* variant of ProbeReturns: a failed lookup is tried once more
ProbeReturnsRetrying(r) ==
  /\ pc = "probe"
  /\ IF ~r.ok /\ Len(execCalls) < 2
     THEN /\ execCalls' = Append(execCalls, execCalls[Len(execCalls)])
          /\ UNCHANGED <<pc, result, simCalls>>
     ELSE Finish(Returned(SimulationWithMidpoint(
            SimulationOut(call.toolName, built, binary.resolvedPath,
                          resolveLiveState(call.toolName,
                                           call.simulationOverride).reason),
            call.toolName, built, ProbeToken(built.guardArgs), r)))
  /\ UNCHANGED <<call, built, decision, approval, guardCalls, waitCalls, poll>>
  /\ UNCHANGED <<execution, failures>>
  /\ Fixed

\* the midpoint lookup of simulate resolved with r
ProbeReturns(r) ==
  /\ pc = "probe"
  /\ Finish(Returned(SimulationWithMidpoint(
       SimulationOut(call.toolName, built, binary.resolvedPath,
                     resolveLiveState(call.toolName,
                                      call.simulationOverride).reason),
       call.toolName, built, ProbeToken(built.guardArgs), r)))
  /\ UNCHANGED <<call, built, decision, approval, guardCalls, waitCalls, poll>>
  /\ UNCHANGED <<execution, failures>>
  /\ Fixed

\* variant of ExecuteReturns: a failed command is run once more
ExecuteReturnsRetryingOnce(r) ==
  /\ pc = "exec"
  /\ execution' = r
  /\ IF ~r.ok /\ Len(execCalls) < 2
     THEN Execute(built.argv, "exec") /\ UNCHANGED simCalls
     ELSE Finish(IF r.ok THEN Returned([live |-> Mutating(call.toolName)])
                 ELSE Threw(RuntimeError(ExecutionFailedCode,
                                         <<"Command failed: ", r.stderr>>,
                                         [command |-> <<binary.resolvedPath>>,
                                          exitCode |-> r.exitCode,
                                          stderr |-> r.stderr])))
  /\ UNCHANGED <<call, built, decision, approval, guardCalls, waitCalls, poll,
                 failures>>
  /\ Fixed

\* execute resolved with r for the tool's own argv
ExecuteReturns(r) ==
  /\ pc = "exec"
  /\ IF ~r.ok
     THEN Finish(Threw(RuntimeError(
            ExecutionFailedCode,
            <<"Command failed: ">>
              \o (IF r.stderr # "" THEN <<r.stderr>>
                  ELSE <<"exit code ", NumberToString(Num(r.exitCode))>>),
            [command |-> commandPreview(binary.resolvedPath, built.argv),
             exitCode |-> r.exitCode, stderr |-> r.stderr])))
     ELSE Finish(Returned(
            [live |-> Mutating(call.toolName), tool |-> call.toolName,
             command |-> commandPreview(binary.resolvedPath, built.argv),
             output |-> r.parsed]))
  /\ execution' = r
  /\ UNCHANGED <<call, built, decision, approval, guardCalls, waitCalls, poll,
                 failures>>
  /\ Fixed

Next ==
  \/ \E r \in Requests(deps.waitForApproval), o \in Overrides :
       /\ r.bag <= Len(ArgBags(r.name))
       /\ CallTool(r.name, ArgBags(r.name)[r.bag], o)
  \/ Settle
  \/ \E d \in Decisions : GuardReturns(d)
  \/ GuardThrows(PlainError(<<"policy engine unavailable">>))
  \/ \E resolution \in Resolutions : WaitResolves(resolution)
  \/ \E thrown \in WaitFailures : WaitRejects(thrown)
  \/ \E i \in 1..Len(Responses), elapsed \in 0..MaxLatencyMs :
       FetchSettles(Responses[i], elapsed)
  \/ \E late \in 0..MaxJitterMs : SleepEnds(late)
  \/ \E i \in 1..Len(ProbeResults) : ProbeReturns(ProbeResults[i])
  \/ \E i \in 1..Len(ExecutionResults) : ExecuteReturns(ExecutionResults[i])

Spec == Init /\ [][Next]_vars

\* every request the poller issued completes and every timer it set fires
FairSpec ==
  /\ Spec
  /\ WF_vars(\E i \in 1..Len(Responses), elapsed \in 0..MaxLatencyMs :
               FetchSettles(Responses[i], elapsed))
  /\ WF_vars(\E late \in 0..MaxJitterMs : SleepEnds(late))

-----------------------------------------------------------------------------
(* executor.ts: executePolymarket                                          *)
(* Texts are sequences of characters, one string per character; what the   *)
(* executor itself writes into a text (the redaction marker, the size      *)
(* message, an error's message) is one string each.                        *)

\* most data events one stream of the child delivers
MaxChunks == 2

\* the characters [a-fA-F0-9] of the pattern of redact
HexDigits ==
  {"0", "1", "2", "3", "4", "5", "6", "7", "8", "9",
   "a", "b", "c", "d", "e", "f", "A", "B", "C", "D", "E", "F"}

\* {64} of the pattern of redact
KeyHexLen == 64

\* /0x[a-fA-F0-9]{64}/ matches at position i of the text
MatchesAt(text, i) ==
  /\ i + 1 + KeyHexLen <= Len(text)
  /\ text[i] = "0"
  /\ text[i + 1] = "x"
  /\ \A j \in 1..KeyHexLen : text[i + 1 + j] \in HexDigits

\* String.prototype.replace with a global pattern: leftmost matches, scanned
\* left to right, none overlapping; j is where the pattern matches next at
\* or after position i, 0 if nowhere
ReplaceFrom[text \in Seq(STRING), i \in Nat] ==
  LET j == IF \A k \in i..Len(text) : ~MatchesAt(text, k) THEN 0
           ELSE CHOOSE k \in i..Len(text) :
                  MatchesAt(text, k) /\ \A m \in i..(k - 1) : ~MatchesAt(text, m)
  IN IF j = 0 THEN SubSeq(text, i, Len(text))
     ELSE SubSeq(text, i, j - 1) \o <<"[redacted-private-key]">>
            \o ReplaceFrom[text, j + 2 + KeyHexLen]

redact(text) == ReplaceFrom[text, 1]

\* String.prototype.trim
IsSpace(c) == c \in {" ", "\n", "\t", "\r"}

Trimmed[text \in Seq(STRING)] ==
  IF \A i \in 1..Len(text) : IsSpace(text[i]) THEN <<>>
  ELSE SubSeq(text,
         CHOOSE i \in 1..Len(text) :
           ~IsSpace(text[i]) /\ \A j \in 1..(i - 1) : IsSpace(text[j]),
         CHOOSE i \in 1..Len(text) :
           ~IsSpace(text[i]) /\ \A j \in (i + 1)..Len(text) : IsSpace(text[j]))

\* the values maybeJson returns: null, a string, undefined while pending
JsonNull == [t |-> "null", text |-> <<>>]
JsonString(text) == [t |-> "string", text |-> text]

\* the character a \uXXXX escape of a JSON string stands for: the digits,
\* the letters a-f and A-F and 'x' as themselves, any other code unit as
\* one character that is none of them
CodeUnit(h) ==
  LET order == <<"0", "1", "2", "3", "4", "5", "6", "7", "8", "9",
                 "a", "b", "c", "d", "e", "f">>
      lower(c) == CASE c = "A" -> "a" [] c = "B" -> "b" [] c = "C" -> "c"
                    [] c = "D" -> "d" [] c = "E" -> "e" [] c = "F" -> "f"
                    [] OTHER -> c
      val(c) == (CHOOSE k \in 1..Len(order) : order[k] = lower(c)) - 1
      n == ((val(h[1]) * 16 + val(h[2])) * 16 + val(h[3])) * 16 + val(h[4])
  IN CASE n >= 48 /\ n <= 57 -> order[n - 47]
       [] n >= 97 /\ n <= 102 -> order[n - 86]
       [] n = 65 -> "A" [] n = 66 -> "B" [] n = 67 -> "C"
       [] n = 68 -> "D" [] n = 69 -> "E" [] n = 70 -> "F"
       [] n = 120 -> "x"
       [] OTHER -> "<other>"

\* JSON.parse on the inside of a string literal: its characters, or ok=false
\* on a bare quote, a control character or a malformed escape
JsonUnescape[inner \in Seq(STRING)] ==
  LET plain(text) ==
        \A k \in 1..Len(text) : text[k] \notin {"\"", "\n", "\t", "\r"}
  IN IF \A k \in 1..Len(inner) : inner[k] # "\\"
     THEN [ok |-> plain(inner), text |-> inner]
     ELSE LET e == CHOOSE k \in 1..Len(inner) :
                     inner[k] = "\\" /\ \A m \in 1..(k - 1) : inner[m] # "\\"
              before == SubSeq(inner, 1, e - 1)
          IN IF /\ Len(inner) >= e + 5
                /\ inner[e + 1] = "u"
                /\ \A k \in (e + 2)..(e + 5) : inner[k] \in HexDigits
             THEN LET rest == JsonUnescape[SubSeq(inner, e + 6, Len(inner))]
                  IN [ok |-> plain(before) /\ rest.ok,
                      text |-> before
                                 \o <<CodeUnit(SubSeq(inner, e + 2, e + 5))>>
                                 \o rest.text]
             ELSE IF Len(inner) >= e + 1 /\ inner[e + 1] \in {"\"", "\\", "/"}
                  THEN LET rest ==
                             JsonUnescape[SubSeq(inner, e + 2, Len(inner))]
                       IN [ok |-> plain(before) /\ rest.ok,
                           text |-> before \o <<inner[e + 1]>> \o rest.text]
                  ELSE [ok |-> FALSE, text |-> <<>>]

\* JSON.parse of a text the child can write here: one string literal parses,
\* to the string it denotes; every other text of StdoutChunks is no JSON
JsonParse[text \in Seq(STRING)] ==
  IF Len(text) >= 2 /\ text[1] = "\"" /\ text[Len(text)] = "\""
  THEN JsonUnescape[SubSeq(text, 2, Len(text) - 1)]
  ELSE [ok |-> FALSE, text |-> <<>>]

maybeJson[input \in Seq(STRING)] ==
  IF Trimmed[input] = <<>> THEN JsonNull
  ELSE IF JsonParse[Trimmed[input]].ok
       THEN JsonString(JsonParse[Trimmed[input]].text)
       ELSE JsonString(Trimmed[input])

\* n hexadecimal digits
Hex(n) == [i \in 1..n |-> IF i % 2 = 1 THEN "7" ELSE "a"]

\* a private key: '0x' and 64 hexadecimal digits
PrivateKey == <<"0", "x">> \o Hex(KeyHexLen)

\* what the child may write to stdout in one chunk: two bytes, the first
\* half of a private key, its second half, and a JSON string holding a
\* private key whose first digit 'a' is written as a unicode escape
StdoutChunks ==
  << <<"o", "k">>,
     <<"0", "x">> \o Hex(KeyHexLen \div 2),
     Hex(KeyHexLen \div 2),
     <<"\"", "0", "x", "\\", "u", "0", "0", "6", "1">> \o Hex(KeyHexLen - 1)
       \o <<"\"", "\n">> >>

\* what it may write to stderr in one chunk
StderrChunks == << <<"e", "r", "r">>, PrivateKey >>

\* what the spawned program does: 'quick' exits by itself with status 0 or 1
\* and dies of SIGTERM; 'graceful' runs until SIGTERM, which it handles by
\* exiting with status 0; 'stubborn' ignores SIGTERM and never exits.
\* the codes the 'close' event may carry: a status, or null after a signal
ExitsOf(c) ==
  CASE c.program = "quick" /\ c.signals = {} -> {Num(0), Num(1)}
    [] c.program = "quick" /\ c.signals # {} -> {Null}
    [] c.program = "graceful" /\ c.signals # {} -> {Num(0)}
    [] OTHER -> {}

ExecutionResult(ok, exitCode, out, err, parsed) ==
  [ok |-> ok, exitCode |-> exitCode, stdout |-> out, stderr |-> err,
   parsed |-> parsed, argv |-> ensureJsonMode(spawned.argv),
   commandPreview |-> commandPreview(spawned.binaryPath, spawned.argv)]

\* variant of Resolve: the last call of resolve wins
ResolveOverwriting(r) == settled' = r

\* resolve(...): only the first call settles the promise
Resolve(r) == settled' = IF settled = NotSettled THEN r ELSE settled

\* clearTimeout(timer)
ClearTimeout == timer' = IF timer = "armed" THEN "cleared" ELSE timer

\* child.kill('SIGTERM'): delivered if the process still runs
Kill(c, why) ==
  [c EXCEPT !.kills = Append(@, why),
            !.signals = IF c.state = "running" THEN @ \cup {why} ELSE @]

\* the child's pipes deliver data until 'close'
Streaming ==
  \/ child.state = "running"
  \/ child.state = "exited" /\ ~child.closed

\* `if (outputTooLarge) return; buffer += chunk.toString()`
AccumulateAlways(buffer, chunk) == buffer \o chunk

Accumulate(buffer, chunk) ==
  IF outputTooLarge THEN buffer ELSE buffer \o chunk

\* the state after a spawn: nothing buffered, the timer armed
ExecutePolymarket(binaryPath, argv, options, program, spawns) ==
  /\ spawned = [binaryPath |-> binaryPath, argv |-> argv, options |-> options]
  /\ child = [NoChild EXCEPT
                !.program = IF spawns THEN program ELSE "none",
                !.argv = ensureJsonMode(argv),
                !.state = IF spawns THEN "running" ELSE "failed",
                !.code = IF spawns THEN Null ELSE Num(-2)]
  /\ stdout = <<>>
  /\ stderr = <<>>
  /\ outputTooLarge = FALSE
  /\ timer = "armed"
  /\ settled = NotSettled

\* child.stdout.on('data', ...); Buffer.byteLength is the length of a text of
\* one-byte characters
StdoutData(chunk) ==
  /\ Streaming
  /\ child.outChunks < MaxChunks
  /\ stdout' = Accumulate(stdout, chunk)
  /\ LET tripped == /\ ~outputTooLarge
                    /\ Len(stdout') > spawned.options.maxOutputBytes
         counted == [child EXCEPT !.outChunks = @ + 1]
     IN /\ outputTooLarge' = (outputTooLarge \/ tripped)
        /\ child' = IF tripped THEN Kill(counted, "cap") ELSE counted
  /\ UNCHANGED <<spawned, stderr, timer, settled, runtimeVars>>

\* child.stderr.on('data', ...)
StderrData(chunk) ==
  /\ Streaming
  /\ child.errChunks < MaxChunks
  /\ stderr' = Accumulate(stderr, chunk)
  /\ LET tripped == /\ ~outputTooLarge
                    /\ Len(stderr') > spawned.options.maxOutputBytes
         counted == [child EXCEPT !.errChunks = @ + 1]
     IN /\ outputTooLarge' = (outputTooLarge \/ tripped)
        /\ child' = IF tripped THEN Kill(counted, "cap") ELSE counted
  /\ UNCHANGED <<spawned, stdout, timer, settled, runtimeVars>>

\* setTimeout(() => child.kill('SIGTERM'), options.timeoutMs); a failed spawn
\* reports its error on the next tick, before any timer
TimerFires ==
  /\ timer = "armed"
  /\ child.state # "failed"
  /\ timer' = "fired"
  /\ child' = Kill(child, "timeout")
  /\ UNCHANGED <<spawned, stdout, stderr, outputTooLarge, settled,
                 runtimeVars>>

\* the process ends, by itself or of the signal
ChildExits(code) ==
  /\ child.state = "running"
  /\ code \in ExitsOf(child)
  /\ child' = [child EXCEPT !.state = "exited", !.code = code]
  /\ UNCHANGED <<spawned, stdout, stderr, outputTooLarge, timer, settled,
                 runtimeVars>>

\* child.on('error', ...): the spawn failed
OnError ==
  /\ child.state = "failed"
  /\ ~child.errored
  /\ ClearTimeout
  /\ Resolve(ExecutionResult(FALSE, -1, redact(stdout),
               redact(Trimmed[stderr \o <<"\n", "spawn ENOENT">>]), JsonNull))
  /\ child' = [child EXCEPT !.errored = TRUE]
  /\ UNCHANGED <<spawned, stdout, stderr, outputTooLarge, runtimeVars>>

\* child.on('close', ...); exitCode is `code ?? -1`
OnClose ==
  LET exitCode == IF child.code = Null THEN -1 ELSE child.code.n
  IN /\ \/ child.state = "exited"
        \/ child.state = "failed" /\ child.errored
     /\ ~child.closed
     /\ ClearTimeout
     /\ IF outputTooLarge
        THEN Resolve(ExecutionResult(FALSE, exitCode, <<>>,
               <<"Command output exceeded ", spawned.options.maxOutputBytes,
                 " bytes">>, JsonNull))
        ELSE Resolve(ExecutionResult(exitCode = 0, exitCode, redact(stdout),
               redact(stderr), maybeJson[redact(stdout)]))
     /\ child' = [child EXCEPT !.closed = TRUE]
     /\ UNCHANGED <<spawned, stdout, stderr, outputTooLarge, runtimeVars>>

\* the argument vectors a caller may hand to executePolymarket: without an
\* output flag, with one in front, with the long one at the end, with a
\* flag that has no value behind it, the flag alone, and none at all
Argvs ==
  { <<"markets", "list">>,
    <<"-o", "table", "markets", "list">>,
    <<"markets", "list", "--output", "json">>,
    <<"markets", "list", "-o">>,
    <<"--output">>,
    <<>> }

\* one executePolymarket call, under a cap two small chunks exceed or a cap
\* no two chunks reach; the runtime it is called from stays idle meanwhile
ExecutorInit ==
  /\ RuntimeAt(Setup(TRUE, FALSE, NoString, NoString, "/usr/bin/polymarket",
                     "injected", 1, 1))
  /\ \E cap \in {3, 150}, program \in {"quick", "graceful", "stubborn"},
        spawns \in BOOLEAN, argv \in Argvs :
       /\ spawns \/ program = "quick"
       /\ argv = <<"markets", "list">> \/ (program = "quick" /\ cap = 150)
       /\ ExecutePolymarket("/usr/bin/polymarket", argv,
            [timeoutMs |-> 15000, maxOutputBytes |-> cap], program, spawns)

ExecutorNext ==
  \/ \E i \in 1..Len(StdoutChunks) : StdoutData(StdoutChunks[i])
  \/ \E i \in 1..Len(StderrChunks) : StderrData(StderrChunks[i])
  \/ TimerFires
  \/ \E code \in {Num(0), Num(1), Null} : ChildExits(code)
  \/ OnError
  \/ OnClose

ExecutorSpec == ExecutorInit /\ [][ExecutorNext]_vars

\* a timer that is not cleared fires, a process that is going to exit exits,
\* and the events of a process that ended are delivered
ExecutorFairSpec ==
  /\ ExecutorSpec
  /\ WF_vars(TimerFires)
  /\ WF_vars(\E code \in {Num(0), Num(1), Null} : ChildExits(code))
  /\ WF_vars(OnError)
  /\ WF_vars(OnClose)

-----------------------------------------------------------------------------
(* tools.ts applied directly: spec.build(args) on bags a caller may send   *)

\* every sample bag of the tool with one key set to a value a caller may
\* send (undefined stands for leaving the key out), and each of those with
\* an undeclared key beside it
BuilderBags(name) ==
  LET values == {Undefined, Null, Bool(TRUE), Str("buy"), Str("BUY"),
                 Str(" SELL"), Str("HOLD"), Str("5"), Str("   "),
                 Str(" gtc "), Str("Gtd"), Str("ioc"), Num(0), Num(-1),
                 Rat(1, 2), Rat(1, 512), Num(10), NaN, Infinity}
      Vary(bag, f, v) ==
        IF v = Undefined THEN [k \in DOMAIN bag \ {f} |-> bag[k]]
        ELSE [k \in DOMAIN bag \cup {f} |-> IF k = f THEN v ELSE bag[k]]
      once == {Vary(ArgBags(name)[i], f, v) :
                 i \in 1..Len(ArgBags(name)),
                 f \in AllowedFields(name) \cup {"unexpected"},
                 v \in values}
  IN once \cup {Vary(b, "unexpected", Bool(TRUE)) : b \in once}

\* tool.build(args), called on a fresh bag or once more on the same bag
BuildPlan(name, args) ==
  /\ pc = "idle"
  /\ host = NoHost
  /\ call = NoCall \/ (call.toolName = name /\ call.args = args)
  /\ call' = [toolName |-> name, args |-> args, simulationOverride |-> Undefined]
  /\ built' = Build(name, args)
  /\ UNCHANGED <<pc, decision, approval, result, guardCalls, waitCalls,
                 execCalls, simCalls, poll, execution, failures>>
  /\ Fixed

\* the constructor without an injected execute (runtime.ts 96-104) on the
\* host h, on a fresh process or once more on the same host
ResolveBinary(h) ==
  /\ pc = "idle"
  /\ call = NoCall
  /\ host = NoHost \/ host = h
  /\ host' = h
  /\ LET discovered == resolvePolymarketBinary(h)
     IN binary' = [requestedPath |-> discovered.requestedPath,
                   resolvedPath |-> discovered.resolvedPath,
                   source |-> discovered.source,
                   checkedPaths |-> discovered.checkedPaths,
                   available |-> discovered.resolvedPath # NoPath]
  /\ UNCHANGED <<config, env, deps, pollConfig, serverVars, executorVars>>
  /\ UNCHANGED <<pc, call, built, decision, approval, result, guardCalls,
                 waitCalls, execCalls, simCalls, poll, execution, failures,
                 session, other, listed, doctor>>

ToolsInit ==
  /\ Init
  /\ binary.resolvedPath # NoPath
  /\ deps.waitForApproval = "injected"
  /\ config.simulationDefault /\ ~config.allowLiveTrades
  /\ env.ALLOW_LIVE_TRADES = NoString

\* a builder or the resolver is applied to an input, or once more to the
\* input it was applied to
ToolsNext ==
  \/ \E name \in IF host = NoHost THEN ToolNames ELSE {} :
       \E args \in IF call = NoCall THEN BuilderBags(name) ELSE {call.args} :
         BuildPlan(name, args)
  \/ \E h \in IF call # NoCall THEN {}
              ELSE IF host = NoHost THEN Hosts(<<"w", "app", "pkg">>)
              ELSE {[host EXCEPT !.executables = {}]} :
       \E x \in IF host = NoHost THEN Executables(h) ELSE {host.executables} :
         ResolveBinary([h EXCEPT !.executables = x])

ToolsSpec == ToolsInit /\ [][ToolsNext]_vars

-----------------------------------------------------------------------------
(* runtime.ts: one runtime serving two callTool invocations at a time,     *)
(* listMcpTools and doctor.  The locals of the invocation that is not      *)
(* running are held in other; JavaScript runs one invocation at a time     *)
(* and changes over only where the running one awaits, which is between    *)
(* two actions of the model.                                               *)

\* the locals of the callTool invocation that is running
Locals ==
  [pc |-> pc, call |-> call, built |-> built, decision |-> decision,
   approval |-> approval, result |-> result, guardCalls |-> guardCalls,
   waitCalls |-> waitCalls, execCalls |-> execCalls, simCalls |-> simCalls,
   poll |-> poll, execution |-> execution]

\* variant of Switch: the invocation resumed has lost the guard's decision
SwitchForgetting ==
  /\ other # Locals
  /\ other' = Locals
  /\ pc' = other.pc
  /\ call' = other.call
  /\ built' = other.built
  /\ decision' = NoDecision
  /\ approval' = other.approval
  /\ result' = other.result
  /\ guardCalls' = other.guardCalls
  /\ waitCalls' = other.waitCalls
  /\ execCalls' = other.execCalls
  /\ simCalls' = other.simCalls
  /\ poll' = other.poll
  /\ execution' = other.execution
  /\ UNCHANGED <<config, env, binary, deps, pollConfig, failures, host,
                 session, listed, doctor, serverVars, executorVars>>

\* the locals of the two invocations change places
Swap ==
  /\ other' = Locals
  /\ pc' = other.pc
  /\ call' = other.call
  /\ built' = other.built
  /\ decision' = other.decision
  /\ approval' = other.approval
  /\ result' = other.result
  /\ guardCalls' = other.guardCalls
  /\ waitCalls' = other.waitCalls
  /\ execCalls' = other.execCalls
  /\ simCalls' = other.simCalls
  /\ poll' = other.poll
  /\ execution' = other.execution

\* the event loop turns to the other invocation
Switch ==
  /\ other # Locals
  /\ Swap
  /\ UNCHANGED <<config, env, binary, deps, pollConfig, failures, host,
                 session, listed, doctor, serverVars, executorVars>>

\* variant of ListMcpTools: once a call has failed for want of a binary the
\* mutating tools are left out
ListMcpToolsShrinking ==
  /\ listed' = [names |-> IF failures > 0 THEN READ_ONLY_TOOLS ELSE TOOL_SPECS,
                failures |-> failures]
  /\ UNCHANGED <<config, env, binary, deps, pollConfig, pc, call, built,
                 decision, approval, result, guardCalls, waitCalls, execCalls,
                 simCalls, poll, execution, failures, host, session, other,
                 doctor, serverVars, executorVars>>

\* listMcpTools: the names of listTools(), stamped with the failures the
\* runtime had seen when it was asked
ListMcpTools ==
  /\ listed' = [names |-> TOOL_SPECS, failures |-> failures]
  /\ UNCHANGED <<config, env, binary, deps, pollConfig, pc, call, built,
                 decision, approval, result, guardCalls, waitCalls, execCalls,
                 simCalls, poll, execution, failures, host, session, other,
                 doctor, serverVars, executorVars>>

\* the report doctor returns; r is what '--version' resolved with, exists
\* whether both veto.config.yaml and the rules directory exist
DoctorReport(r, exists) ==
  [ok |-> r.ok /\ exists,
   binary |-> [requestedPath |-> binary.requestedPath,
               resolvedPath |-> binary.resolvedPath,
               source |-> binary.source,
               checkedPaths |-> binary.checkedPaths,
               ok |-> r.ok,
               exitCode |-> r.exitCode,
               stderr |-> IF binary.resolvedPath = NoPath
                          THEN binaryMissingMessage ELSE <<Trim(r.stderr)>>,
               fixes |-> binaryFixes],
   veto |-> [configExists |-> exists, agentId |-> session.agentId],
   runtime |-> [agentId |-> session.agentId,
                binaryRequestedPath |-> binary.requestedPath,
                binaryResolvedPath |-> binary.resolvedPath,
                binarySource |-> binary.source,
                binaryAvailable |-> binary.available]]

\* doctor up to its await: '--version' is run when there is a binary, and
\* the report is returned at once when there is none
DoctorStarts(exists) ==
  /\ doctor.dpc # "version"
  /\ doctor' =
       IF binary.resolvedPath = NoPath
       THEN [dpc |-> "done",
             report |-> DoctorReport(ExecutionResultOf(FALSE, -1, "", Null),
                                     exists)]
       ELSE [dpc |-> "version", report |-> <<>>]
  /\ UNCHANGED <<config, env, binary, deps, pollConfig, pc, call, built,
                 decision, approval, result, guardCalls, waitCalls, execCalls,
                 simCalls, poll, execution, failures, host, session, other,
                 listed, serverVars, executorVars>>

\* '--version' resolved with r: doctor returns its report
DoctorReturns(r, exists) ==
  /\ doctor.dpc = "version"
  /\ doctor' = [dpc |-> "done", report |-> DoctorReport(r, exists)]
  /\ UNCHANGED <<config, env, binary, deps, pollConfig, pc, call, built,
                 decision, approval, result, guardCalls, waitCalls, execCalls,
                 simCalls, poll, execution, failures, host, session, other,
                 listed, serverVars, executorVars>>

\* a runtime with the live gates open and an injected waitForApproval, with
\* and without a binary, created at two different times
SessionInit ==
  /\ \E path \in {NoPath, "/usr/bin/polymarket"},
        made \in {[now |-> "lx2k9", profile |-> "defaults"],
                  [now |-> "lx2ka", profile |-> "agent"]} :
       RuntimeAt([Setup(FALSE, TRUE, "true", NoString, path, "injected", 1, 1)
                    EXCEPT !.session = NewSession(made.now, made.profile)])
  /\ spawned = [binaryPath |-> NoPath, argv |-> <<>>,
                options |-> [timeoutMs |-> 0, maxOutputBytes |-> 0]]
  /\ child = NoChild
  /\ stdout = <<>>
  /\ stderr = <<>>
  /\ outputTooLarge = FALSE
  /\ timer = "none"
  /\ settled = NotSettled

\* two invocations of callTool (a market order, live or simulated, and a
\* lookup with an undeclared argument) with what the collaborators may
\* answer, listings and doctor calls, in any interleaving
SessionNext ==
  \/ \E o \in {Undefined, Bool(TRUE)}, r \in {"order_market", "markets_get"},
        i \in 1..2 :
       /\ r = "markets_get" => i = 2
       /\ CallTool(r, ArgBags(r)[i], o)
  \/ Settle
  \/ \E d \in {Decision("allow", NoString, NoString, Undefined),
               Decision("deny", "budget exceeded", "rule-1", Undefined),
               Decision("require_approval", "needs review", "rule-2",
                        Str("apr_1"))} :
       GuardReturns(d)
  \/ \E resolution \in Resolutions : WaitResolves(resolution)
  \/ \E i \in {1, Len(ProbeResults)} : ProbeReturns(ProbeResults[i])
  \/ \E i \in 1..Len(ExecutionResults) : ExecuteReturns(ExecutionResults[i])
  \/ Switch
  \/ ListMcpTools
  \/ \E exists \in BOOLEAN : DoctorStarts(exists)
  \/ \E i \in 1..Len(ExecutionResults), exists \in BOOLEAN :
       DoctorReturns(ExecutionResults[i], exists)

SessionSpec == SessionInit /\ [][SessionNext]_vars

-----------------------------------------------------------------------------
(* mcp.ts: handleRpc and the line-delimited stdio transport.  A text is    *)
(* the sequence of its pieces; a JSON document is three pieces, so that a  *)
(* chunk may end in the middle of one.  Two 'data' handlers may be under   *)
(* way at a time: the one that runs holds its callTool in the variables    *)
(* of the runtime, the other one is parked with its callTool in other.     *)

ParseErrorCode == -32700
InvalidRequestCode == -32600
MethodNotFoundCode == -32601
InternalErrorCode == -32603

\* variant of toRpcError: a failure that is not classified keeps no message
toRpcErrorOpaque(error) ==
  IF error.class = "RuntimeError"
  THEN [code |-> error.code, message |-> error.message, data |-> error.data]
  ELSE [code |-> InternalErrorCode, message |-> <<"Unknown runtime error">>,
        data |-> <<>>]

\* toRpcError: the shape of a RuntimeError, or the internal error code
toRpcError(error) ==
  IF error.class = "RuntimeError"
  THEN [code |-> error.code, message |-> error.message, data |-> error.data]
  ELSE IF error.class = "Error"
  THEN [code |-> InternalErrorCode, message |-> error.message, data |-> <<>>]
  ELSE [code |-> InternalErrorCode, message |-> <<"Unknown runtime error">>,
        data |-> [error |-> error.data]]

makeResponse(id, outcome, error) ==
  [jsonrpc |-> "2.0", id |-> id, result |-> outcome, error |-> error]

\* a JSON-RPC request as JSON.parse returns it; id Undefined when absent
Request(version, id, method, params) ==
  [t |-> "object", jsonrpc |-> version, id |-> id, method |-> method,
   params |-> params]

\* a JSON array
Array == [t |-> "array"]

\* asToolCallParams: the trimmed name and the argument bag, or the throw
asToolCallParams(value) ==
  IF value.t # "object" THEN Throw(<<"Invalid params payload">>)
  ELSE LET name == Field(value.fields, "name")
           args == Field(value.fields, "arguments")
       IN IF name.t # "string" \/ Trim(name.s) = ""
          THEN Throw(<<"Invalid params.name">>)
          ELSE IF args # Undefined /\ args.t # "object"
          THEN Throw(<<"Invalid params.arguments">>)
          ELSE Ok([name |-> Trim(name.s),
                   arguments |-> IF args = Undefined THEN <<>>
                                 ELSE args.fields])

\* handleRpc up to its first await: the response it returns at once, the
\* tools/call it goes on with, or the TypeError of reading a field of null
handleRpc(req) ==
  IF req = Null THEN [kind |-> "raise"]
  ELSE IF req.t # "object"
  THEN [kind |-> "reply",
        response |-> makeResponse(Undefined, Undefined,
                       [code |-> InvalidRequestCode,
                        message |-> <<"Invalid JSON-RPC request">>,
                        data |-> <<>>])]
  ELSE IF req.jsonrpc # "2.0" \/ req.method = NoString
  THEN [kind |-> "reply",
        response |-> makeResponse(req.id, Undefined,
                       [code |-> InvalidRequestCode,
                        message |-> <<"Invalid JSON-RPC request">>,
                        data |-> <<>>])]
  ELSE IF req.method = "tools/list"
  THEN [kind |-> "reply",
        response |-> makeResponse(req.id, [tools |-> TOOL_SPECS], Undefined)]
  ELSE IF req.method = "tools/call"
  THEN LET params == asToolCallParams(req.params)
       IN IF params.ok THEN [kind |-> "call", params |-> params.v]
          ELSE [kind |-> "reply",
                response |-> makeResponse(req.id, Undefined,
                               toRpcError(PlainError(params.message)))]
  ELSE IF req.method = "initialize"
  THEN [kind |-> "reply",
        response |-> makeResponse(req.id,
                       [protocolVersion |-> "2025-03-26"], Undefined)]
  ELSE IF req.id = Undefined THEN [kind |-> "silent"]
  ELSE [kind |-> "reply",
        response |-> makeResponse(req.id, Undefined,
                       [code |-> MethodNotFoundCode,
                        message |-> <<"Unsupported method '", req.method, "'">>,
                        data |-> <<>>])]

\* handleRpc once callTool returned or threw: the response to req
Answer(req, outcome) ==
  IF outcome.kind = "threw"
  THEN makeResponse(req.id, Undefined, toRpcError(outcome.error))
  ELSE makeResponse(req.id, [content |-> outcome.payload,
                             isError |-> Undefined], Undefined)

\* the documents a client sends, by the piece between their braces
Documents ==
  [get |-> Request("2.0", Num(1), "tools/call",
             Obj([name |-> Str(" markets_get "),
                  arguments |-> Obj([market |-> Str("abc")])])),
   buy |-> Request("2.0", Num(2), "tools/call",
             Obj([name |-> Str("order_market"),
                  arguments |-> Obj([token |-> Str("1"), side |-> Str("buy"),
                                     amount |-> Num(20)])])),
   list |-> Request("2.0", Num(3), "tools/list", Undefined),
   noparams |-> Request("2.0", Num(4), "tools/call", Undefined),
   import |-> Request("2.0", Num(5), "tools/call",
                Obj([name |-> Str("wallet_import")])),
   extra |-> Request("2.0", Num(6), "tools/call",
               Obj([name |-> Str("markets_get"),
                    arguments |-> Obj([market |-> Str("abc"),
                                       unexpected |-> Bool(TRUE)])])),
   noname |-> Request("2.0", Num(7), "tools/call",
                Obj([name |-> Str("   "), arguments |-> Obj(<<>>)])),
   listargs |-> Request("2.0", Num(8), "tools/call",
                  Obj([name |-> Str("markets_list"), arguments |-> Array])),
   notify |-> Request("2.0", Undefined, "notifications/initialized",
                      Undefined),
   old |-> Request("1.0", Num(9), "tools/list", Undefined),
   resources |-> Request("2.0", Num(10), "resources/list", Undefined),
   init |-> Request("2.0", Num(11), "initialize", Undefined)]

\* the text of a document
Line(body) == <<"{", body, "}">>

\* JSON.parse of a trimmed line: a whole document, null, a number, or the
\* SyntaxError
ParseRequest(text) ==
  IF Len(text) = 3 /\ text[1] = "{" /\ text[3] = "}"
     /\ text[2] \in DOMAIN Documents
  THEN Ok(Documents[text[2]])
  ELSE IF text = <<"null">> THEN Ok(Null)
  ELSE IF text = <<"7">> THEN Ok(Num(7))
  ELSE Throw(<<"SyntaxError">>)

\* text.split('\n')
RECURSIVE Split(_)
Split(text) ==
  IF \A i \in 1..Len(text) : text[i] # "\n" THEN <<text>>
  ELSE LET i == CHOOSE i \in 1..Len(text) :
                  text[i] = "\n" /\ \A j \in 1..(i - 1) : text[j] # "\n"
       IN <<SubSeq(text, 1, i - 1)>> \o Split(SubSeq(text, i + 1, Len(text)))

\* the for loop of the 'data' handler over lines, up to the callTool of the
\* first tools/call with well-formed params: what has been written by
\* then, the lines still to go and the request whose callTool is entered.
\* When handleRpc raises the handler is over and its lines are dropped.
RECURSIVE Drain(_, _)
Drain(lines, out) ==
  IF lines = <<>>
  THEN [replies |-> out, lines |-> <<>>, req |-> NoRequest, params |-> <<>>]
  ELSE LET trimmed == Trimmed[Head(lines)]
           parsed == ParseRequest(trimmed)
           h == handleRpc(parsed.v)
       IN IF trimmed = <<>> THEN Drain(Tail(lines), out)
          ELSE IF ~parsed.ok
          THEN Drain(Tail(lines),
                     Append(out, makeResponse(Undefined, Undefined,
                                   [code |-> ParseErrorCode,
                                    message |-> <<"Invalid JSON payload">>,
                                    data |-> <<>>])))
          ELSE CASE h.kind = "raise" ->
                      [replies |-> out, lines |-> <<>>, req |-> NoRequest,
                       params |-> <<>>]
                 [] h.kind = "silent" -> Drain(Tail(lines), out)
                 [] h.kind = "reply" ->
                      Drain(Tail(lines), Append(out, h.response))
                 [] h.kind = "call" ->
                      [replies |-> out, lines |-> Tail(lines),
                       req |-> parsed.v, params |-> h.params]

\* the handler that runs takes its loop up from lines
Proceed(lines) ==
  LET d == Drain(lines, replies)
  IN /\ replies' = d.replies
     /\ loop' = [lines |-> d.lines, req |-> d.req]
     /\ IF d.req # NoRequest
        THEN Invoke(d.params.name, d.params.arguments,
                    serveOptions.simulationOverride)
        ELSE UNCHANGED <<pc, call, built, decision, approval, result,
                         guardCalls, waitCalls, execCalls, simCalls, poll,
                         execution, failures>>

\* process.stdin 'data': the next n pieces of the input arrive while no
\* handler runs; the handler splits what it has and starts on the lines
OnData(n) ==
  /\ pc = "idle"
  /\ loop = NoLoop
  /\ n \in 1..Len(stdin.unread)
  /\ LET lines == Split(lineBuffer \o SubSeq(stdin.unread, 1, n))
     IN /\ lineBuffer' = lines[Len(lines)]
        /\ Proceed(SubSeq(lines, 1, Len(lines) - 1))
  /\ stdin' = [read |-> stdin.read \o SubSeq(stdin.unread, 1, n),
               unread |-> SubSeq(stdin.unread, n + 1, Len(stdin.unread)),
               first |-> IF stdin.read = <<>> THEN n ELSE stdin.first]
  /\ UNCHANGED <<config, env, binary, deps, pollConfig, host, session, other,
                 listed, doctor, serveOptions, parked, executorVars>>

\* callTool returned or threw: handleRpc returns its response and the
\* handler writes it
Respond ==
  /\ pc = "done"
  /\ loop.req # NoRequest
  /\ replies' = Append(replies, Answer(loop.req, result))
  /\ loop' = [loop EXCEPT !.req = NoRequest]
  /\ Leave
  /\ UNCHANGED <<config, env, binary, deps, pollConfig, host, session, other,
                 listed, doctor, serveOptions, stdin, lineBuffer, parked,
                 executorVars>>

\* the handler that has written a response goes on with its next line
Continue ==
  /\ pc = "idle"
  /\ loop.req = NoRequest
  /\ loop.lines # <<>>
  /\ Proceed(loop.lines)
  /\ UNCHANGED <<config, env, binary, deps, pollConfig, host, session, other,
                 listed, doctor, serveOptions, stdin, lineBuffer, parked,
                 executorVars>>

\* the handler that runs awaits its collaborator, or there is none: the
\* event loop turns to the other handler, or to none
Yield ==
  /\ pc \in {"guard", "approval", "probe", "exec"}
     \/ (pc = "idle" /\ loop = NoLoop)
  /\ other # Locals \/ parked # loop
  /\ Swap
  /\ loop' = parked
  /\ parked' = loop
  /\ UNCHANGED <<config, env, binary, deps, pollConfig, failures, host,
                 session, listed, doctor, serveOptions, stdin, lineBuffer,
                 replies,
                 executorVars>>

NL == <<"\n">>

\* what a client may send
Streams ==
  { Line("get") \o NL \o Line("list") \o NL \o Line("buy") \o NL,
    Line("noparams") \o NL \o Line("import") \o NL \o Line("extra") \o NL
      \o Line("get") \o NL,
    <<" ">> \o Line("buy") \o <<" ", "\r", "\n", "\n", "garbage", "\n">>
      \o Line("notify") \o NL \o Line("list"),
    Line("old") \o NL \o Line("resources") \o NL \o Line("init") \o NL
      \o Line("noname") \o NL \o Line("listargs") \o <<"\n", "7", "\n">>,
    <<"null", "\n">> \o Line("list") \o NL }

\* a server over a runtime with the live gates open, started with and
\* without --simulation on, and a client about to send one of the streams
ServerInit ==
  /\ \E stream \in Streams, o \in {Undefined, Bool(TRUE)} :
       /\ config = Setup(FALSE, TRUE, "true", NoString, "/usr/bin/polymarket",
                         "injected", 1, 1).config
       /\ stdin = [read |-> <<>>, unread |-> stream, first |-> 0]
       /\ serveOptions = [simulationOverride |-> o]
  /\ \E setup \in {Setup(FALSE, TRUE, "true", NoString, "/usr/bin/polymarket",
                         "injected", 1, 1)} :
       /\ env = setup.env
       /\ binary = setup.binary
       /\ deps = setup.deps
       /\ pollConfig = setup.pollConfig
       /\ session = setup.session
  /\ pc = "idle"
  /\ call = NoCall
  /\ built = BuildThrow(<<>>)
  /\ decision = NoDecision
  /\ approval = NoApproval
  /\ result = NoResult
  /\ guardCalls = <<>>
  /\ waitCalls = <<>>
  /\ execCalls = <<>>
  /\ simCalls = 0
  /\ poll = NoPoll
  /\ execution = NoExecution
  /\ failures = 0
  /\ host = NoHost
  /\ other = Locals
  /\ listed = [names |-> <<>>, failures |-> 0]
  /\ doctor = [dpc |-> "idle", report |-> <<>>]
  /\ lineBuffer = <<>>
  /\ loop = NoLoop
  /\ parked = NoLoop
  /\ replies = <<>>
  /\ spawned = [binaryPath |-> NoPath, argv |-> <<>>,
                options |-> [timeoutMs |-> 0, maxOutputBytes |-> 0]]
  /\ child = NoChild
  /\ stdout = <<>>
  /\ stderr = <<>>
  /\ outputTooLarge = FALSE
  /\ timer = "none"
  /\ settled = NotSettled

\* the input arrives in chunks of any size; what the collaborators of the
\* runtime answer comes in between, to either of the handlers under way
ServerNext ==
  \/ \E n \in 1..Len(stdin.unread) : OnData(n)
  \/ Respond
  \/ Continue
  \/ Yield
  \/ \E d \in {Decision("allow", NoString, NoString, Undefined),
               Decision("deny", "budget exceeded", "rule-1", Undefined)} :
       GuardReturns(d)
  \/ \E e \in {PlainError(<<"policy engine unavailable">>),
               ThrownValue(Str("timeout"))} :
       GuardThrows(e)
  \/ \E i \in {1, Len(ProbeResults)} : ProbeReturns(ProbeResults[i])
  \/ \E i \in 1..Len(ExecutionResults) : ExecuteReturns(ExecutionResults[i])

ServerSpec == ServerInit /\ [][ServerNext]_vars

-----------------------------------------------------------------------------
(* Properties                                                              *)

\* the policy let the call through: allow, or an approval that was granted
PassedPolicy ==
  \/ decision.decision = "allow"
  \/ decision.decision = "require_approval" /\ approval.status = "approved"

\* executor invocations of this call that carry the tool's own argv
OwnArgvRuns ==
  Cardinality({i \in 1..Len(execCalls) : execCalls[i].argv = built.argv})

\* callTool threw a RuntimeError with this code
ThrewCode(code) ==
  /\ pc = "done"
  /\ result.kind = "threw"
  /\ result.error.class = "RuntimeError"
  /\ result.error.code = code

\* C1: the executor (the midpoint probe included) is invoked only once the
\* guard returned a decision for the call, and only when that decision is
\* allow or is require_approval followed by an approved resolution; a
\* failed guard call, a deny, an unusable require_approval or a resolution
\* that is not approved leaves the executor untouched.
C1_ExecutorOnlyAfterPolicyPass ==
  (execCalls # <<>> \/ simCalls > 0) =>
     /\ Len(guardCalls) = 1
     /\ guardCalls[1].toolName = call.toolName
     /\ \/ decision.decision = "allow"
        \/ /\ decision.decision = "require_approval"
           /\ Len(waitCalls) = 1
           /\ approval.status = "approved"

C1_Witness ==
  /\ pc = "probe"
  /\ decision.decision = "require_approval"
  /\ approval.status = "approved"
  /\ Len(execCalls) = 1

\* C2: on a deny decision callTool fails with PolicyDenied (code -32001,
\* message starting 'Denied by policy', data carrying the decision's
\* ruleId), for every tool and every accepted argument bag, and neither
\* the executor nor the approval poller is invoked.
C2_DenyFailsWithPolicyDenied ==
  decision.decision = "deny" =>
     /\ ThrewCode(-32001)
     /\ result.error.message[1] = "Denied by policy: "
     /\ DOMAIN result.error.data = {"ruleId"}
     /\ result.error.data.ruleId = decision.ruleId
     /\ execCalls = <<>>
     /\ simCalls = 0
     /\ waitCalls = <<>>
     /\ poll.requests = 0

C2_Witness ==
  /\ decision.decision = "deny"
  /\ decision.ruleId = "rule-1"
  /\ call.toolName = "order_market"
  /\ pc = "done"

\* the gates of the live decision, one by one
OverrideRequestsSimulation == call.simulationOverride = Bool(TRUE)
OverrideAbsent == call.simulationOverride = Undefined
DefaultRequestsSimulation == config.simulationDefault = TRUE
LiveTradingDisabled == config.allowLiveTrades = FALSE
EnvOptInAbsent == env.ALLOW_LIVE_TRADES = NoString
EnvOptInTrue == env.ALLOW_LIVE_TRADES \in {"true", "TRUE", "True"}

\* C3 as stated: any one of {override requests simulation, default
\* requests simulation, live trading disabled, opt-in absent} makes a
\* mutating tool that passed policy run in simulation.
C3_AsStated ==
  (/\ Mutating(call.toolName)
   /\ PassedPolicy
   /\ \/ OverrideRequestsSimulation
      \/ DefaultRequestsSimulation
      \/ LiveTradingDisabled
      \/ EnvOptInAbsent)
  => (simCalls = 1 /\ OwnArgvRuns = 0)

\* C3, amended: for a mutating tool that passed policy, any one of
\* {override requests simulation, no override is given and the default
\* requests simulation, live trading disabled, opt-in absent} keeps the
\* executor from ever receiving the tool's own argv, and with a resolved
\* binary the tool is run in simulation.
C3_AnyGateForcesSimulation ==
  (/\ Mutating(call.toolName)
   /\ PassedPolicy
   /\ \/ OverrideRequestsSimulation
      \/ OverrideAbsent /\ DefaultRequestsSimulation
      \/ LiveTradingDisabled
      \/ EnvOptInAbsent)
  => /\ OwnArgvRuns = 0
     /\ pc # "exec"
     /\ binary.resolvedPath # NoPath => simCalls = 1

C3_Witness ==
  /\ Mutating(call.toolName)
  /\ PassedPolicy
  /\ call.simulationOverride = Bool(FALSE)
  /\ ~DefaultRequestsSimulation
  /\ LiveTradingDisabled
  /\ EnvOptInTrue
  /\ simCalls = 1
  /\ pc = "done"
  /\ result.kind = "returned"

\* C4: a mutating tool's own argv reaches the executor only when the
\* effective simulation setting (the override when given, the default
\* otherwise) is off, allowLiveTrades is true and ALLOW_LIVE_TRADES is
\* true (in any letter case); and when all three hold, policy passed and
\* the binary is resolved, the executor is invoked exactly once, with the
\* built argv, and nothing is simulated.
C4_LiveIffAllGatesOpen ==
  LET effectiveSimulation ==
        IF OverrideAbsent THEN DefaultRequestsSimulation
        ELSE OverrideRequestsSimulation
      allOpen == ~effectiveSimulation /\ ~LiveTradingDisabled /\ EnvOptInTrue
  IN Mutating(call.toolName) =>
       /\ OwnArgvRuns > 0 => allOpen
       /\ (allOpen /\ PassedPolicy /\ binary.resolvedPath # NoPath) =>
            /\ execCalls = <<[binaryPath |-> binary.resolvedPath,
                              argv |-> built.argv]>>
            /\ simCalls = 0
            /\ pc \in {"exec", "done"}
            /\ result.kind = "returned" =>
                 /\ "live" \in DOMAIN result.payload
                 /\ result.payload.live = TRUE

C4_Witness ==
  /\ Mutating(call.toolName)
  /\ OverrideAbsent
  /\ env.ALLOW_LIVE_TRADES = "TRUE"
  /\ pc = "done"
  /\ simCalls = 0
  /\ execCalls = <<[binaryPath |-> binary.resolvedPath, argv |-> built.argv]>>
  /\ result.kind = "returned"
  /\ result.payload.live = TRUE

\* C5: whenever a mutating tool is simulated the executor never receives
\* the tool's argv: for order_market and order_create_limit it is invoked
\* exactly once, with ['clob', 'midpoint', token], and for every other
\* mutating tool it is not invoked at all.
C5_SimulationRunsOnlyTheProbe ==
  simCalls > 0 =>
     /\ simCalls = 1
     /\ Mutating(call.toolName)
     /\ OwnArgvRuns = 0
     /\ IF call.toolName \in {"order_market", "order_create_limit"}
        THEN /\ Len(execCalls) = 1
             /\ execCalls[1].argv =
                  <<"clob", "midpoint", built.guardArgs.token.s>>
             /\ built.argv[4] = built.guardArgs.token.s
        ELSE execCalls = <<>>

C5_Witness ==
  /\ simCalls = 1
  /\ call.toolName = "order_create_limit"
  /\ pc = "done"
  /\ result.kind = "returned"
  /\ result.payload.simulation = TRUE
  /\ Len(execCalls) = 1

\* the decision asks for an approval and names one callTool can wait for
ApprovalIdNonBlank ==
  /\ decision.decision = "require_approval"
  /\ decision.approvalId.t = "string"
  /\ Trim(decision.approvalId.s) # ""

\* runs of the tool after the approval: executions of its argv, simulations
Attempts == OwnArgvRuns + simCalls

\* C6 as stated: every require_approval decision with a non-empty string
\* approvalId has the poller called once with it, and an approved outcome
\* is followed by exactly one attempt.
C6_AsStated ==
  (/\ decision.decision = "require_approval"
   /\ decision.approvalId.t = "string"
   /\ decision.approvalId.s # "")
  => /\ waitCalls = <<decision.approvalId.s>>
     /\ approval.status = "approved" => Attempts = 1

\* C6, amended: for every require_approval decision whose approvalId is a
\* string that is not blank after trimming, the poller is called exactly
\* once, with the approvalId as the decision carried it (untrimmed), and
\* before any executor invocation; an approved outcome over a resolved
\* binary is followed by exactly one attempt to run the tool (one
\* execution of its argv or one simulation), and over an unresolved
\* binary by BinaryUnavailable and no attempt.
C6_OnePollThenOneAttempt ==
  ApprovalIdNonBlank =>
     /\ waitCalls = <<decision.approvalId.s>>
     /\ approval.status # "approved" => (execCalls = <<>> /\ simCalls = 0)
     /\ approval.status = "approved" =>
          IF binary.resolvedPath # NoPath
          THEN /\ Attempts = 1
               /\ Len(execCalls) <= 1
               /\ pc \in {"probe", "exec", "done"}
          ELSE /\ Attempts = 0
               /\ execCalls = <<>>
               /\ ThrewCode(-32003)

C6_Witness ==
  /\ ApprovalIdNonBlank
  /\ decision.approvalId = Str(" apr_2 ")
  /\ approval.status = "approved"
  /\ pc = "exec"
  /\ Attempts = 1

\* C7: when the poller resolves with a status other than approved (denied,
\* expired), callTool fails with PolicyDenied: code -32001, a message
\* containing 'Approval <status>', data carrying ruleId, approvalId and
\* resolvedBy; the executor is not invoked and nothing is returned.
C7_NotApprovedIsPolicyDenied ==
  (approval.status # NoString /\ approval.status # "approved") =>
     /\ ThrewCode(-32001)
     /\ result.error.message[2] = "Approval "
     /\ result.error.message[3] = approval.status
     /\ approval.status \in {"denied", "expired"}
     /\ DOMAIN result.error.data = {"ruleId", "approvalId", "resolvedBy"}
     /\ result.error.data.ruleId = decision.ruleId
     /\ result.error.data.approvalId = decision.approvalId.s
     /\ result.error.data.resolvedBy = approval.resolvedBy
     /\ execCalls = <<>>
     /\ simCalls = 0

C7_Witness ==
  /\ approval.status = "expired"
  /\ poll.ppc = "returned"
  /\ call.toolName = "order_market"
  /\ pc = "done"

\* C8: a require_approval decision whose approvalId is absent, not a
\* string, empty or whitespace-only makes callTool fail with
\* ApprovalRequired (code -32002, message starting 'Approval required');
\* the poller is not called, no HTTP request goes out and the executor is
\* not invoked.
C8_NoApprovalIdIsApprovalRequired ==
  (/\ decision.decision = "require_approval"
   /\ \/ decision.approvalId.t # "string"
      \/ decision.approvalId.s \in {"", "   "})
  => /\ ThrewCode(-32002)
     /\ result.error.message[1] = "Approval required: "
     /\ result.error.data.ruleId = decision.ruleId
     /\ waitCalls = <<>>
     /\ poll = NoPoll
     /\ execCalls = <<>>
     /\ simCalls = 0

C8_Witness ==
  /\ decision.decision = "require_approval"
  /\ decision.approvalId = Str("   ")
  /\ deps.waitForApproval = "cloud"
  /\ ApiKeyPresent
  /\ pc = "done"

\* C9: a poll request answered with an HTTP 4xx makes the wait fail right
\* after that request: no sleep follows it and no further request goes
\* out (one request in all when the first response is the 4xx); the error
\* has code -32003 and the message 'Approval polling failed: status
\* <code>'; the executor is not invoked.
C9_ClientErrorFailsFast ==
  (poll.last.kind = "response" /\ poll.last.status \in 400..499) =>
     /\ poll.ppc = "threw"
     /\ ThrewCode(-32003)
     /\ result.error.message[1] = "Approval polling failed: status "
     /\ result.error.message[2] =
          (IF poll.last.status = 403 THEN "403" ELSE "404")
     /\ result.error.data = [approvalId |-> decision.approvalId.s]
     /\ poll.requests = poll.sleeps + 1
     /\ poll.sleeps = 0 => poll.requests = 1
     /\ approval = NoApproval
     /\ execCalls = <<>>
     /\ simCalls = 0

C9_Witness ==
  /\ poll.last.kind = "response"
  /\ poll.last.status = 404
  /\ poll.requests = 2
  /\ pc = "done"

\* the status field of the last response handled, as the body carries it
LastStatusField == Field(toRecord(poll.last.json), "status")

LastWasSuccess ==
  poll.last.kind = "response" /\ poll.last.status \in 200..299

\* C10 as stated: a 2xx response whose status field is approved, denied
\* or expired ends the wait with that outcome; a 2xx response with any
\* other or no status never ends the wait and never raises an error.
C10_AsStated ==
  LastWasSuccess =>
     IF LastStatusField.t = "string"
        /\ LastStatusField.s \in {"approved", "denied", "expired"}
     THEN /\ poll.ppc = "returned"
          /\ approval.status = LastStatusField.s
     ELSE poll.ppc \in {"sleep", "fetch"}

\* C10, amended: a 2xx response whose status field, after trimming, is
\* approved, denied or expired ends the wait at once with that (trimmed)
\* outcome and no further request; a 2xx response with any other status,
\* none, or a body that is not JSON never yields an outcome and no error
\* of its own: polling goes on with a sleep and a further request unless
\* the deadline has passed when the response is handled, and then the
\* wait fails with the deadline failure (-32002 timed out, or -32003 with
\* the last retryable error).
C10_TerminalEndsPendingContinues ==
  LastWasSuccess =>
     IF LastStatusField.t = "string"
        /\ Trim(LastStatusField.s) \in {"approved", "denied", "expired"}
     THEN /\ poll.ppc = "returned"
          /\ approval.status = Trim(LastStatusField.s)
          /\ poll.requests = poll.sleeps + 1
     ELSE /\ poll.ppc \in {"sleep", "fetch", "threw"}
          /\ approval = NoApproval
          /\ poll.ppc = "sleep" => (pc = "approval" /\ poll.now < poll.deadline)
          /\ poll.ppc = "fetch" => (pc = "approval" /\ poll.requests = poll.sleeps + 1)
          /\ poll.ppc = "threw" =>
               /\ poll.now >= poll.deadline
               /\ \/ /\ ThrewCode(-32002)
                     /\ result.error.message[1] =
                          "Approval required but timed out after "
                  \/ /\ ThrewCode(-32003)
                     /\ result.error.message[1] = "Approval polling failed: "

C10_Witness ==
  /\ LastWasSuccess
  /\ LastStatusField = Str("pending")
  /\ poll.ppc = "fetch"
  /\ poll.requests = 2

\* the last response handled was a 5xx or the request failed at network level
LastWasRetryable ==
  \/ poll.last.kind = "rejected"
  \/ poll.last.kind = "response" /\ poll.last.status \in 500..599

\* the poller gave up because the deadline had passed
DeadlineFailure ==
  /\ poll.ppc = "threw"
  /\ poll.requests >= 1
  /\ ~(poll.last.kind = "response" /\ poll.last.status \in 400..499)

\* C11: a 5xx response or a network-level failure never ends the wait by
\* itself: its reason is recorded and polling continues; once the deadline
\* has passed the wait fails with the last recorded retryable error (code
\* -32003, 'Approval polling failed: ...') if any was recorded during the
\* wait, and with the approval timeout error (code -32002, 'timed out
\* after ...') otherwise.
C11_RetryableThenDeadline ==
  /\ LastWasRetryable =>
       /\ poll.recorded
       /\ \/ poll.ppc \in {"sleep", "fetch"} /\ pc = "approval"
          \/ DeadlineFailure /\ poll.now >= poll.deadline
  /\ DeadlineFailure =>
       IF poll.recorded
       THEN /\ ThrewCode(-32003)
            /\ result.error.message[1] = "Approval polling failed: "
       ELSE /\ ThrewCode(-32002)
            /\ result.error.message[1] = "Approval required but timed out after "

\* the poller is between its first request and its return or throw
Polling == poll.ppc \in {"fetch", "sleep"}

\* C12: the approval wait terminates: with a positive timeout and poll
\* interval and every request completing, the poller eventually returns an
\* outcome or fails; between requests it sleeps exactly the smaller of the
\* poll interval and the time left to the deadline, so never past the
\* deadline; and a request after the first is issued only out of a sleep
\* entered with time left, never once the deadline was seen to have passed.
C12_WaitTerminates ==
  /\ [](poll.ppc = "sleep" =>
          /\ poll.now < poll.deadline
          /\ poll.sleepMs > 0
          /\ poll.now + poll.sleepMs <= poll.deadline
          /\ \/ poll.sleepMs = pollConfig.pollIntervalMs
             \/ /\ poll.sleepMs = poll.deadline - poll.now
                /\ poll.sleepMs < pollConfig.pollIntervalMs)
  /\ [][poll'.requests > poll.requests =>
          /\ poll'.requests = poll.requests + 1
          /\ \/ poll.requests = 0 /\ poll.ppc = "off"
             \/ poll.ppc = "sleep" /\ poll.now < poll.deadline]_vars
  /\ [][poll.ppc \in {"returned", "threw"} /\ pc' # "idle" => poll' = poll]_vars
  /\ (Polling ~> poll.ppc \in {"returned", "threw"})

C12_Witness ==
  /\ poll.ppc = "sleep"
  /\ poll.now > 0
  /\ poll.sleepMs = poll.deadline - poll.now
  /\ poll.sleepMs < pollConfig.pollIntervalMs

\* the tool of the call is one of the read-only tools of the catalogue
ReadOnlyCall ==
  call.toolName \in {"markets_list", "markets_search", "markets_get",
                     "clob_book", "clob_midpoint", "clob_price",
                     "portfolio_positions"}

\* the one executor call a run of the tool itself consists of
OwnRun == [binaryPath |-> binary.resolvedPath, argv |-> built.argv]

\* C13: a read-only tool is never simulated: once it passed policy with a
\* resolved binary the executor is invoked exactly once, with the built
\* argv, whatever the override, simulationDefault, allowLiveTrades and
\* ALLOW_LIVE_TRADES are, and the payload of a successful run has
\* live = false.
C13_ReadOnlyNeverSimulated ==
  (ReadOnlyCall /\ PassedPolicy /\ binary.resolvedPath # NoPath) =>
     /\ simCalls = 0
     /\ execCalls = <<OwnRun>>
     /\ pc \in {"exec", "done"}
     /\ (pc = "done" /\ execution.ok) =>
          /\ result.kind = "returned"
          /\ result.payload.live = FALSE
          /\ result.payload.tool = call.toolName

C13_Witness ==
  /\ ReadOnlyCall
  /\ call.simulationOverride = Bool(TRUE)
  /\ config.simulationDefault
  /\ ~config.allowLiveTrades
  /\ env.ALLOW_LIVE_TRADES = NoString
  /\ pc = "done"
  /\ execution.ok
  /\ result.kind = "returned"
  /\ result.payload.live = FALSE

\* C14: when execute resolves with ok = false for the tool's command,
\* callTool fails with code -32003 and data carrying the command preview,
\* the exit code and stderr; the command is not retried: the executor was
\* invoked exactly once for the call.
C14_FailedCommandIsNotRetried ==
  (execution # NoExecution /\ ~execution.ok) =>
     /\ ThrewCode(-32003)
     /\ result.error.message[1] = "Command failed: "
     /\ result.error.message[2] =
          (IF execution.stderr # "" THEN execution.stderr ELSE "exit code ")
     /\ DOMAIN result.error.data = {"command", "exitCode", "stderr"}
     /\ result.error.data.command[1] = binary.resolvedPath
     /\ result.error.data.exitCode = execution.exitCode
     /\ result.error.data.stderr = execution.stderr
     /\ execCalls = <<OwnRun>>
     /\ simCalls = 0

C14_Witness ==
  /\ execution # NoExecution
  /\ execution.exitCode = 1
  /\ execution.stderr = "boom"
  /\ call.toolName = "order_market"
  /\ pc = "done"

\* the sample bags the builders reject, with the message each is rejected with
RejectedBags ==
  { [name |-> "markets_list", bag |-> 3,
     message |-> <<"Invalid '", "limit", "': expected positive number">>],
    [name |-> "markets_search", bag |-> 2,
     message |-> <<"Invalid '", "query", "': expected non-empty string">>],
    [name |-> "markets_get", bag |-> 2,
     message |-> <<"Unexpected argument '", "unexpected", "'">>],
    [name |-> "clob_price", bag |-> 2,
     message |-> <<"Invalid '", "side", "': expected 'buy' or 'sell'">>],
    [name |-> "order_create_limit", bag |-> 3,
     message |-> <<"Invalid 'orderType': expected GTC|FOK|GTD|FAK">>],
    [name |-> "order_create_limit", bag |-> 4,
     message |-> <<"Invalid '", "price", "': expected positive number">>],
    [name |-> "order_market", bag |-> 3,
     message |-> <<"Invalid '", "amount", "': expected number">>],
    [name |-> "order_market", bag |-> 4,
     message |-> <<"Invalid '", "token", "': expected non-empty string">>],
    [name |-> "order_cancel", bag |-> 2,
     message |-> <<"Invalid '", "orderId", "': expected non-empty string">>],
    [name |-> "order_cancel_all", bag |-> 2,
     message |-> <<"Unexpected argument '", "unexpected", "'">>],
    [name |-> "ctf_split", bag |-> 2,
     message |-> <<"Invalid '", "amount", "': expected number">>],
    [name |-> "ctf_redeem", bag |-> 2,
     message |-> <<"Invalid '", "condition", "': expected non-empty string">>] }

\* the call in flight was made with this sample bag
Sent(sample) ==
  LET bag == ArgBags(sample.name)[sample.bag]
  IN /\ call.toolName = sample.name
     /\ DOMAIN call.args = DOMAIN bag
     /\ \A k \in DOMAIN bag : call.args[k] = bag[k]

\* neither the policy collaborator, nor the poller, nor the executor ran
NothingInvoked ==
  /\ guardCalls = <<>>
  /\ waitCalls = <<>>
  /\ poll = NoPoll
  /\ execCalls = <<>>
  /\ simCalls = 0

\* C15: validation precedes policy: an unknown tool name fails with code
\* -32601 and a bag the builder rejects fails with code -32602 and the
\* builder's field-level message; in both cases the policy collaborator,
\* the poller and the executor are not invoked; every call that passes
\* validation consults the policy collaborator exactly once.
C15_ValidationPrecedesPolicy ==
  /\ (pc # "idle" /\ call.toolName = "wallet_import") =>
        /\ ThrewCode(-32601)
        /\ result.error.message = <<"Unknown tool '", "wallet_import", "'">>
        /\ NothingInvoked
  /\ \A sample \in RejectedBags :
        Sent(sample) =>
          /\ ThrewCode(-32602)
          /\ result.error.message = sample.message
          /\ NothingInvoked
  /\ (/\ pc # "idle"
      /\ call.toolName # "wallet_import"
      /\ ~\E sample \in RejectedBags : Sent(sample)) =>
        /\ Len(guardCalls) = 1
        /\ guardCalls[1].toolName = call.toolName

C15_Witness ==
  /\ Sent([name |-> "order_market", bag |-> 3])
  /\ call.args.amount = Infinity
  /\ pc = "done"
  /\ result.error.code = -32602

\* C16: when binary resolution produced no path, every call that passes
\* policy (allow, or an approved approval) fails with BinaryUnavailable:
\* code -32003, data carrying the requested path, the checked paths and
\* the remediation fixes; the executor is not invoked and nothing is
\* simulated, for read-only and mutating tools alike; the failure is that
\* call's alone: later calls on the runtime are validated, put to the
\* policy collaborator and answered as before.
C16_BinaryUnavailable ==
  /\ (binary.resolvedPath = NoPath /\ PassedPolicy) =>
        /\ ThrewCode(-32003)
        /\ result.error.message[1] = "Polymarket CLI binary not found."
        /\ DOMAIN result.error.data = {"requestedPath", "checkedPaths", "fixes"}
        /\ result.error.data.requestedPath = binary.requestedPath
        /\ result.error.data.checkedPaths = binary.checkedPaths
        /\ Len(result.error.data.fixes) = 4
        /\ execCalls = <<>>
        /\ simCalls = 0
  /\ failures > 0 =>
        /\ binary.resolvedPath = NoPath
        /\ pc = "guard" => (Len(guardCalls) = 1 /\ result = NoResult)
        /\ decision.decision = "deny" => ThrewCode(-32001)
        /\ (pc = "done" /\ call.toolName = "wallet_import") => ThrewCode(-32601)

C16_Witness ==
  /\ failures = 1
  /\ binary.resolvedPath = NoPath
  /\ PassedPolicy
  /\ ~Mutating(call.toolName)
  /\ result = Threw(BinaryUnavailable)
  /\ Len(binary.checkedPaths) = 2

\* C17: the executor reports ok=true only when the process exited with code 0
\* and was not terminated because the timeout fired or the output cap was
\* exceeded; a termination by timeout is reported with ok=false
C17_OkOnlyForUnforcedExitZero ==
  settled # NotSettled /\ settled.ok =>
    /\ child.state = "exited"
    /\ child.code = Num(0)
    /\ "timeout" \notin child.signals
    /\ ~outputTooLarge

\* C18: every executor call eventually completes: from the moment the call
\* is started its promise resolves, and once the timeout has elapsed the
\* process is terminated and the call resolves, whatever the process does
C18_EveryCallCompletes ==
  /\ (timer = "armed") ~> (settled # NotSettled)
  /\ (timer = "fired") ~> (child.state = "exited" /\ settled # NotSettled)

\* a buffer holds more bytes than options.maxOutputBytes
Exceeds(buffer) == Len(buffer) > spawned.options.maxOutputBytes

\* `Command output exceeded ${options.maxOutputBytes} bytes`
SizeExceededMessage ==
  <<"Command output exceeded ", spawned.options.maxOutputBytes, " bytes">>

ContainsKey(text) == \E i \in 1..Len(text) : MatchesAt(text, i)

\* C20: no result the executor resolves with holds a private-key-shaped
\* token ('0x' and 64 hexadecimal digits) in stdout, in stderr or in parsed,
\* on any completion path and however the output was split into chunks
C20_NoPrivateKeyInResult ==
  settled # NotSettled =>
    /\ ~ContainsKey(settled.stdout)
    /\ ~ContainsKey(settled.stderr)
    /\ ~ContainsKey(settled.parsed.text)

-----------------------------------------------------------------------------
(* Properties of the builders, under ToolsSpec                             *)

\* a build has been applied to the bag held in call
Planned == call.toolName \in ToolNames

\* the keys of the bag outside the declared field set of its tool
UnexpectedKeys == DOMAIN call.args \ AllowedFields(call.toolName)

\* C21: for every operation, a bag with any key outside the declared field
\* set makes the build fail with "Unexpected argument '<key>'" naming an
\* offending key, whatever the other fields are; the key is never dropped
C21_UnexpectedArgumentRejected ==
  Planned /\ UnexpectedKeys # {} =>
    /\ ~built.ok
    /\ built.argv = <<>>
    /\ \E k \in UnexpectedKeys :
         built.message = <<"Unexpected argument '", k, "'">>

\* an undeclared key beside an amount that is itself invalid
C21_Witness ==
  /\ call.toolName = "order_market"
  /\ "unexpected" \in DOMAIN call.args
  /\ Field(call.args, "amount") = NaN
  /\ built.message = <<"Unexpected argument '", "unexpected", "'">>

\* the required numeric fields of a tool
NumericFields(name) ==
  CASE name = "order_create_limit" -> {"price", "size"}
    [] name \in {"order_market", "ctf_split", "ctf_merge"} -> {"amount"}
    [] OTHER -> {}

\* C22: for order_create_limit (price, size), order_market (amount) and
\* ctf_split / ctf_merge (amount) the build fails, and produces no plan,
\* whenever the numeric field is missing, not of number type, not finite or
\* not strictly positive
C22_NumericFieldsChecked ==
  Planned =>
    \A f \in NumericFields(call.toolName) :
      LET value == Field(call.args, f)
      IN (value.t # "number" \/ ~IsFinite(value) \/ value.n <= 0) =>
           ~built.ok /\ built.argv = <<>>

\* the tools that take a side
SideTools == {"clob_price", "order_create_limit", "order_market"}

OrderTypeCodes == {"GTC", "FOK", "GTD", "FAK"}

\* argv holds the flag followed by the word
HasPair(argv, flag, word) ==
  \E i \in 1..(Len(argv) - 1) : argv[i] = flag /\ argv[i + 1] = word

NumberOf(value) == IF value.t = "number" THEN value ELSE ToNumber(value)

\* r is x > 0 rounded to that many fractional digits: the multiple of
\* 10^-digits nearest to x, the larger one when two are equally near
RoundedTo(r, x, digits) ==
  IF Pow10(digits) % x.d = 0 THEN r = x
  ELSE /\ Pow10(digits) % r.d = 0
       /\ LET units == r.n * (Pow10(digits) \div r.d)
          IN /\ 2 * (units * x.d - x.n * Pow10(digits)) <= x.d
             /\ 2 * (x.n * Pow10(digits) - units * x.d) < x.d

\* C24: a valid order_create_limit builds argv 'clob create-order --token
\* <token> --side <side> --price String(p) --size String(s)' followed only
\* by the optional --post-only and --order-type pairs; guardArgs.amount_usd
\* is p * s rounded to 8 fractional digits; and building the same bag again
\* gives the same plan
C24_LimitOrderPlan ==
  /\ [](call.toolName = "order_create_limit" /\ built.ok =>
          LET p == NumberOf(Field(call.args, "price"))
              s == NumberOf(Field(call.args, "size"))
              postOnly == Field(call.args, "postOnly")
              orderType == Field(call.args, "orderType")
              head == <<"clob", "create-order",
                        "--token", Trim(Field(call.args, "token").s),
                        "--side", ToLowerCase(Trim(Field(call.args, "side").s)),
                        "--price", NumberToString(p),
                        "--size", NumberToString(s)>>
              post == IF postOnly \in {Undefined, Null} THEN <<>>
                      ELSE <<"--post-only",
                             IF postOnly = Bool(TRUE) THEN "true" ELSE "false">>
              type == IF orderType \in {Undefined, Null} THEN <<>>
                      ELSE <<"--order-type", ToUpperCase(Trim(orderType.s))>>
          IN /\ built.argv = head \o post \o type
             /\ RoundedTo(built.guardArgs.amount_usd,
                          Reduce(p.n * s.n, p.d * s.d), 8)
             /\ p = Rat(1, 2) /\ s = Num(10) =>
                  built.guardArgs.amount_usd = Num(5))
  /\ [][call' = call => built' = built]_vars

\* price 1/512 and size 5: the notional 0.009765625 has nine fractional
\* digits and is held as 0.00976563, with both optional pairs in argv
C24_Witness ==
  /\ call.toolName = "order_create_limit"
  /\ Field(call.args, "price") = Rat(1, 512)
  /\ Field(call.args, "size") = Num(5)
  /\ built.ok
  /\ Len(built.argv) = 14
  /\ built.guardArgs.amount_usd = Rat(976563, 100000000)

-----------------------------------------------------------------------------
(* Properties of simulate, under Spec                                      *)

\* callTool returned a simulation result
SimulationReturned ==
  /\ pc = "done"
  /\ result.kind = "returned"
  /\ "simulation" \in DOMAIN result.payload

\* the midpoint lookup of the simulation succeeded
ProbeSucceeded ==
  /\ SimulationReturned
  /\ result.payload.marketReference # Undefined
  /\ "raw" \in DOMAIN result.payload.marketReference

\* the field of the probe's parsed output, undefined when there is none
ProbeField(f) ==
  LET raw == result.payload.marketReference.raw
  IN IF raw.t = "object" THEN Field(raw.fields, f) ELSE Undefined

\* the midpoint, mid and price fields of the probe's parsed output
ProbeFields == <<ProbeField("midpoint"), ProbeField("mid"), ProbeField("price")>>

\* the first of those fields that passes the test, as a number; null if none
FirstNumber(Usable(_)) ==
  LET passing == {i \in 1..3 : Usable(ProbeFields[i])}
  IN IF passing = {} THEN Null
     ELSE NumberOf(ProbeFields[CHOOSE i \in passing :
                                 \A j \in passing : i <= j])

IsNumericText(v) ==
  v.t = "string" /\ Trim(v.s) # "" /\ IsFinite(ToNumber(v))

\* what the result must carry for a market order of amount a when the
\* reference price is m
SharesFollow(m) ==
  LET a == built.guardArgs.amount
      shares == result.payload.estimatedShares
  IN call.toolName = "order_market" =>
       IF m # Null /\ m.n > 0
       THEN shares # Undefined
            /\ RoundedTo(shares, Reduce(a.n * m.d, a.d * m.n), 6)
       ELSE shares = Undefined

\* C25 as stated: the reference price is the first of midpoint, mid, price
\* of the probe's parsed output that is a finite number
C25_AsStated ==
  ProbeSucceeded =>
    LET m == FirstNumber(IsFinite)
    IN result.payload.marketReference.midpoint = m /\ SharesFollow(m)

\* C25: under simulation with a successful midpoint probe the reference
\* price is the first of midpoint, mid, price of the probe's parsed output
\* that is a finite number or a non-blank string converting to one; a
\* market order of amount a with reference m > 0 reports estimatedShares
\* a / m rounded to 6 digits (20 and 0.5 give 40); with no reference or
\* m <= 0 it reports none and the simulation still succeeds
C25_ReferencePrice ==
  ProbeSucceeded =>
    LET Usable(v) == IsFinite(v) \/ IsNumericText(v)
        m == FirstNumber(Usable)
    IN /\ result.payload.marketReference.midpoint = m
       /\ SharesFollow(m)
       /\ result.payload.simulation = TRUE
       /\ call.toolName = "order_market"
            /\ built.guardArgs.amount = Num(20) /\ m = Rat(1, 2)
            => result.payload.estimatedShares = Num(40)

\* a market order of 20 against the reference 3: 6.666667 shares
C25_Witness ==
  /\ ProbeSucceeded
  /\ call.toolName = "order_market"
  /\ built.guardArgs.amount = Num(20)
  /\ result.payload.marketReference.midpoint = Num(3)
  /\ result.payload.estimatedShares = Rat(6666667, 1000000)

\* the reference-price lookups among the commands of this call
Probes ==
  {i \in 1..Len(execCalls) :
     execCalls[i].argv = MidpointArgv(ProbeToken(built.guardArgs))}

\* C26: when the midpoint probe resolves with ok = false, callTool still
\* returns a successful simulation (simulation = true) whose marketReference
\* carries the token and a warning, with no estimatedShares,
\* estimatedNotionalUsd or priceVsMidpoint, and no second probe is issued
C26_FailedProbeStillSimulates ==
  /\ [][\A i \in 1..Len(ProbeResults) :
          ~ProbeResults[i].ok /\ ProbeReturns(ProbeResults[i]) =>
            /\ pc' = "done"
            /\ result'.kind = "returned"
            /\ result'.payload.simulation = TRUE
            /\ DOMAIN result'.payload.marketReference = {"token", "warning"}
            /\ result'.payload.marketReference.token =
                 ProbeToken(built.guardArgs)
            /\ result'.payload.marketReference.warning # <<>>
            /\ result'.payload.estimatedShares = Undefined
            /\ result'.payload.estimatedNotionalUsd = Undefined
            /\ result'.payload.priceVsMidpoint = Undefined
            /\ execCalls' = execCalls]_vars
  /\ [](NeedsMidpoint(call.toolName) /\ built.ok =>
          Cardinality(Probes) <= 1)

\* a limit order simulated after its probe failed with exit code -1
C26_Witness ==
  /\ SimulationReturned
  /\ call.toolName = "order_create_limit"
  /\ Cardinality(Probes) = 1
  /\ result.payload.marketReference =
       [token |-> ProbeToken(built.guardArgs),
        warning |-> <<"midpoint lookup failed with code ", "-1">>]
  /\ result.payload.estimatedNotionalUsd = Undefined

-----------------------------------------------------------------------------
(* Properties of the binary resolver, under ToolsSpec                      *)

\* the resolver has run on the host
Resolved == host # NoHost

\* the files a command stands for: one in every non-empty entry of PATH
OnPath(command) ==
  LET dirs == SelectSeq(host.env.PATH, LAMBDA dir : dir # "")
  IN [i \in 1..Len(dirs) |-> [source |-> "", path |-> dirs[i] \o "/" \o command]]

\* the files a written path or command stands for
StandsFor(written) ==
  IF written.absolute THEN <<[source |-> "", path |-> written.text]>>
  ELSE IF Len(written.segs) > 1
  THEN <<[source |-> "", path |-> PathOf(host.baseDir \o written.segs)],
         [source |-> "", path |-> PathOf(host.cwd \o written.segs)]>>
  ELSE OnPath(written.text)

Staged(candidates, source) ==
  [i \in 1..Len(candidates) |-> [candidates[i] EXCEPT !.source = source]]

\* every candidate of every stage with the stage it belongs to, in the
\* order of the stages (a file may be listed more than once)
SearchOrder ==
  LET Up(dir) == IF dir = <<>> THEN dir ELSE SubSeq(dir, 1, Len(dir) - 1)
      roots == <<host.baseDir, host.cwd, Up(host.baseDir), Up(host.cwd),
                 Up(Up(host.baseDir)), Up(Up(host.cwd))>>
      override == host.env.POLYMARKET_BINARY_PATH
      Builds(i) ==
        <<[source |-> "workspace-release",
           path |-> PathOf(roots[i] \o <<"target", "release", "polymarket">>)],
          [source |-> "workspace-debug",
           path |-> PathOf(roots[i] \o <<"target", "debug", "polymarket">>)]>>
  IN (IF override.text \in {NoString, "   "} THEN <<>>
      ELSE Staged(StandsFor(override), "env"))
     \o (IF host.requestedPath.text \in {"auto", "   "} THEN <<>>
         ELSE Staged(StandsFor(host.requestedPath), "config"))
     \o Staged(OnPath("polymarket"), "path")
     \o Builds(1) \o Builds(2) \o Builds(3) \o Builds(4) \o Builds(5)
     \o Builds(6)

\* the places of the executable files in a sequence of candidates
Hits(order) == {i \in 1..Len(order) : order[i].path \in host.executables}

\* the first of some places
First(places) == CHOOSE i \in places : \A j \in places : i <= j

\* C27: resolvePolymarketBinary returns the first executable candidate in
\* the order: the POLYMARKET_BINARY_PATH override; the configured path or
\* command unless it is 'auto'; 'polymarket' in each PATH directory in
\* order; then for each root (base directory, working directory, their
\* parents and grandparents) target/release/polymarket then
\* target/debug/polymarket.  The source names the stage that matched, and a
\* candidate that is not executable never stops the search
C27_FirstExecutableInOrder ==
  Resolved =>
    LET order == SearchOrder
        hits == Hits(order)
    IN IF hits = {}
       THEN binary.resolvedPath = NoPath /\ binary.source = NoSource
       ELSE /\ binary.resolvedPath = order[First(hits)].path
            /\ binary.source = order[First(hits)].source

\* the override and the configured path are not executable, nor is the
\* release build under the first root: the debug build under a later root
\* is found although a later candidate is executable too
C27_Witness ==
  /\ Resolved
  /\ host.env.POLYMARKET_BINARY_PATH.text = "/opt/pm"
  /\ host.requestedPath.text = "bin/pm"
  /\ host.env.PATH # <<>>
  /\ Cardinality(host.executables) = 2
  /\ First(Hits(SearchOrder)) > 6
  /\ binary.source = "workspace-debug"
  /\ binary.resolvedPath = "/w/app/target/debug/polymarket"

\* the candidates examined: the search order up to its first executable
Examined(order) ==
  LET hits == Hits(order)
  IN IF hits = {} THEN order ELSE SubSeq(order, 1, First(hits))

\* the place a file is first met at in a sequence of candidates
FirstPlace(candidates, path) ==
  CHOOSE i \in 1..Len(candidates) :
    candidates[i].path = path
    /\ \A j \in 1..(i - 1) : candidates[j].path # path

\* C28: in every resolution checkedPaths has no duplicates and lists every
\* candidate examined, in examination order; resolvedPath is null exactly
\* when source is null; a non-null resolvedPath is in checkedPaths and was
\* executable; and when no candidate is executable there is no path and no
\* source but every candidate of every stage is listed
C28_CheckedPathsComplete ==
  Resolved =>
    LET checked == binary.checkedPaths
        order == SearchOrder
        examined == Examined(order)
        place == [i \in 1..Len(checked) |-> FirstPlace(examined, checked[i])]
    IN /\ \A i, j \in 1..Len(checked) : checked[i] = checked[j] => i = j
       /\ {checked[i] : i \in 1..Len(checked)}
            = {examined[i].path : i \in 1..Len(examined)}
       /\ \A i, j \in 1..Len(checked) : i < j => place[i] < place[j]
       /\ binary.resolvedPath = NoPath <=> binary.source = NoSource
       /\ binary.resolvedPath # NoPath =>
            /\ \E i \in 1..Len(checked) : checked[i] = binary.resolvedPath
            /\ binary.resolvedPath \in host.executables
       /\ Hits(order) = {} =>
            /\ binary.resolvedPath = NoPath
            /\ binary.source = NoSource
            /\ \A i \in 1..Len(order) :
                 \E j \in 1..Len(checked) : checked[j] = order[i].path

\* nothing is executable; 'polymarket' is configured, so every PATH entry is
\* examined twice, and the working directory is the parent of the base
\* directory, so its build outputs are met twice
C28_Witness ==
  /\ Resolved
  /\ host.executables = {}
  /\ host.requestedPath.text = "polymarket"
  /\ host.env.PATH # <<>>
  /\ host.cwd = <<"w", "app">>
  /\ Len(binary.checkedPaths) = 12
  /\ binary.resolvedPath = NoPath

-----------------------------------------------------------------------------
(* Properties of a runtime in use, under SessionSpec                       *)

\* listMcpTools has been called
Listed == listed.names # <<>>

\* the places of the catalogue a name is held at
PlacesOf(name) == {i \in 1..Len(TOOL_SPECS) : TOOL_SPECS[i] = name}

\* C29: the catalogue is fixed.  Whatever callTool invocations came before
\* and in whatever order, a listing returns the same names; the names are
\* pairwise distinct, each name looks up exactly the operation listed under
\* it, and wallet_import, wallet_reset and clob_delete_api_key are never
\* among them
C29_CatalogFixed ==
  /\ [][Listed /\ Listed' =>
          {listed.names[i] : i \in 1..Len(listed.names)}
            = {listed'.names[i] : i \in 1..Len(listed'.names)}]_vars
  /\ [](Listed =>
          /\ \A i, j \in 1..Len(listed.names) :
               listed.names[i] = listed.names[j] => i = j
          /\ \A i \in 1..Len(listed.names) :
               /\ getToolSpec(listed.names[i])
               /\ PlacesOf(listed.names[i]) = {i}
          /\ \A i \in 1..Len(listed.names) :
               listed.names[i] \notin {"wallet_import", "wallet_reset",
                                       "clob_delete_api_key"})

\* the catalogue is listed after a call failed for want of a binary, while
\* one invocation has thrown and the other is awaiting the guard
C29_Witness ==
  /\ Listed
  /\ listed.failures = 1
  /\ Len(listed.names) = 15
  /\ pc = "done" /\ result.kind = "threw"
  /\ other.pc = "guard"

\* the locals the running invocation has after the step
LocalsAfter ==
  [pc |-> pc', call |-> call', built |-> built', decision |-> decision',
   approval |-> approval', result |-> result', guardCalls |-> guardCalls',
   waitCalls |-> waitCalls', execCalls |-> execCalls', simCalls |-> simCalls',
   poll |-> poll', execution |-> execution']

\* C30: the binary resolution of a runtime (resolved path, source, checked
\* paths, availability), its session identifier and its agent identifier
\* are unchanged by any interleaving of callTool and doctor calls, and
\* doctor reports them as they are; an invocation that is not running is
\* left as it is by every step of the one that runs and is resumed exactly
\* as it was left, so validation still precedes policy, a simulated call
\* never runs its command and a failed probe still yields a simulation in
\* each of two interleaved invocations
C30_RuntimeStateFixed ==
  /\ [][binary' = binary /\ session' = session]_vars
  /\ [][other' # other => other' = Locals /\ LocalsAfter = other]_vars
  /\ [](doctor.dpc = "done" =>
          /\ doctor.report.binary.resolvedPath = binary.resolvedPath
          /\ doctor.report.binary.source = binary.source
          /\ doctor.report.binary.checkedPaths = binary.checkedPaths
          /\ doctor.report.runtime.binaryAvailable = binary.available
          /\ doctor.report.veto.agentId = session.agentId)
  /\ []C15_ValidationPrecedesPolicy
  /\ []C13_ReadOnlyNeverSimulated
  /\ C26_FailedProbeStillSimulates

\* doctor has reported while one invocation was simulated after a failed
\* probe and the other ran its command live
C30_Witness ==
  /\ doctor.dpc = "done"
  /\ doctor.report.binary.ok
  /\ pc = "done"
  /\ result.kind = "returned"
  /\ "simulation" \in DOMAIN result.payload
  /\ other.pc = "done"
  /\ other.result.kind = "returned"
  /\ "simulation" \notin DOMAIN other.result.payload
  /\ other.call.toolName = "order_market"

-----------------------------------------------------------------------------
(* Properties of the server, under ServerSpec                              *)

\* the places of replies that answer the request with this id
RepliesTo(id) == {i \in 1..Len(replies) : replies[i].id = id}

\* nothing is left to read and no handler is under way
Quiescent ==
  /\ stdin.unread = <<>>
  /\ pc = "idle" /\ loop = NoLoop
  /\ other.pc = "idle" /\ parked = NoLoop

\* the tools/call documents whose text has been read
CallsRead ==
  {body \in DOMAIN Documents :
     /\ Documents[body].method = "tools/call"
     /\ \E i \in 1..Len(stdin.read) : stdin.read[i] = body}

\* the response carries exactly the shape toRpcError is to give for thrown
Structured(response, thrown) ==
  /\ response.result = Undefined
  /\ response.error # Undefined
  /\ IF thrown.class = "RuntimeError"
     THEN /\ response.error.code = thrown.code
          /\ response.error.message = thrown.message
          /\ response.error.data = thrown.data
     ELSE /\ response.error.code = -32603
          /\ thrown.class = "Error" => response.error.message = thrown.message

\* C31: a tools/call whose callTool threw is answered, in the step that
\* follows, with one response that carries the request's id and a
\* structured error: code, message and data of a classified failure, code
\* -32603 for anything else thrown (with the message of an Error); the
\* handler is then ready for its next line, which it has kept.  Malformed
\* params are answered with -32603 as well, no request is answered twice,
\* and once the input is read and every handler is through each tools/call
\* that was read has its one response.
C31_FailuresBecomeStructuredErrors ==
  /\ [][pc = "done" /\ loop.req # NoRequest
          => /\ Len(replies') = Len(replies) + 1
             /\ SubSeq(replies', 1, Len(replies)) = replies
             /\ replies'[Len(replies')].id = loop.req.id
             /\ IF result.kind = "threw"
                THEN Structured(replies'[Len(replies')], result.error)
                ELSE replies'[Len(replies')].error = Undefined
             /\ pc' = "idle"
             /\ loop' = [lines |-> loop.lines, req |-> NoRequest]]_vars
  /\ [](\A i \in 1..Len(replies) :
          replies[i].id \in {Documents.noparams.id, Documents.noname.id,
                             Documents.listargs.id}
            => Structured(replies[i], PlainError(replies[i].error.message)))
  /\ [](\A body \in CallsRead :
          /\ Cardinality(RepliesTo(Documents[body].id)) <= 1
          /\ Quiescent => Cardinality(RepliesTo(Documents[body].id)) = 1)

\* three calls have failed, each with its own code, and a fourth one, whose
\* policy collaborator failed, was answered after them
C31_Witness ==
  /\ Len(replies) = 4
  /\ replies[1].error.code = -32603
  /\ replies[1].error.message = <<"Invalid params payload">>
  /\ replies[2].error.code = UnknownToolCode
  /\ replies[3].error.code = InvalidArgumentCode
  /\ replies[4].id = Documents.get.id
  /\ replies[4].error # Undefined
  /\ replies[4].error.code = -32603
  /\ replies[4].error.message = <<"policy engine unavailable">>

\* what the poller of the call in flight threw, as the model knows it: the
\* built-in poller's own failure, or what its catch made of the rejection
PollerThrew ==
  /\ pc = "done"
  /\ result.kind = "threw"
  /\ waitCalls # <<>>
  /\ approval = NoApproval

\* C32: when callTool ends because waitForApproval failed, what it throws
\* is either the classified error the poller threw, unchanged in code,
\* message and data, or ApprovalPollingFailed: code -32003, a message that
\* starts with 'Approval polling failed: ' and goes on with the message of
\* the Error (String(error) otherwise), data made of the decision's ruleId
\* and the approvalId waited for; the executor was not invoked and nothing
\* was simulated.
C32_PollerFailurePropagates ==
  /\ [](PollerThrew
          => /\ result.error.class = "RuntimeError"
             /\ execCalls = <<>> /\ simCalls = 0)
  /\ [][pc = "approval" /\ deps.waitForApproval = "injected"
        /\ pc' = "done" /\ approval' = NoApproval
          => \E thrown \in WaitFailures :
               IF thrown.class = "RuntimeError"
               THEN result'.error = thrown
               ELSE /\ result'.error.code = -32003
                    /\ result'.error.message =
                         <<"Approval polling failed: ",
                           CASE thrown = PlainError(<<"approval backend down">>)
                                  -> "approval backend down"
                             [] thrown = ThrownValue(Str("timeout")) -> "timeout"
                             [] OTHER -> "null">>
                    /\ result'.error.data =
                         [ruleId |-> decision.ruleId,
                          approvalId |-> waitCalls[1]]]_vars
  /\ [][pc = "approval" /\ deps.waitForApproval = "cloud" /\ pc' = "done"
        /\ approval' = NoApproval
          => /\ result'.error.class = "RuntimeError"
             /\ result'.error.data = [approvalId |-> waitCalls[1]]
             /\ execCalls' = <<>> /\ simCalls' = 0]_vars

\* a classified rejection came through as it was
C32_Witness ==
  /\ PollerThrew
  /\ deps.waitForApproval = "injected"
  /\ result.error.code = ApprovalRequiredCode
  /\ result.error.message = <<"Approval queue is closed">>
  /\ result.error.data = [queue |-> "closed"]

-----------------------------------------------------------------------------
(* Properties of the executor's argv, under ExecutorSpec                   *)

\* argv asks for an output format: '--output' or '-o' with a value behind
RequestsOutputFormat(argv) ==
  \E i \in 1..Len(argv) :
    /\ argv[i] \in {"--output", "-o"}
    /\ i + 1 <= Len(argv)

\* C33: the child is run with argv as it is when argv holds '--output' or
\* '-o' with a value behind it, and with '-o', 'json' in front of argv
\* otherwise; normalizing what the child is run with changes nothing; the
\* array and the options the caller handed over are the same at every step;
\* and the result of the call reports the argv the child was run with and
\* a command preview that is the binary path followed by that argv.
C33_JsonModeArgv ==
  /\ [](child.argv = IF RequestsOutputFormat(spawned.argv)
                     THEN spawned.argv
                     ELSE <<"-o", "json">> \o spawned.argv)
  /\ [](ensureJsonMode(child.argv) = child.argv)
  /\ [][spawned' = spawned]_vars
  /\ [](settled # NotSettled
          => /\ settled.argv = child.argv
             /\ settled.commandPreview = <<spawned.binaryPath>> \o child.argv)

\* a call whose argv came with its own output flag has completed
C33_Witness ==
  /\ settled # NotSettled
  /\ spawned.argv = <<"markets", "list", "--output", "json">>
  /\ settled.argv = spawned.argv
  /\ settled.commandPreview =
       <<"/usr/bin/polymarket", "markets", "list", "--output", "json">>

-----------------------------------------------------------------------------
(* Properties of the plan and the policy's view of it, under ToolsSpec     *)

\* the flag a field is passed behind; none for the tools that pass their
\* one string as the third word
FlagOf(name, f) ==
  IF name \in {"markets_search", "markets_get", "clob_book", "clob_midpoint",
               "clob_price", "portfolio_positions", "order_cancel"}
     /\ f \in {"query", "market", "token", "address", "orderId"}
  THEN NoString
  ELSE CASE f = "postOnly" -> "--post-only"
         [] f = "orderType" -> "--order-type"
         [] OTHER -> "--" \o f

\* the word argv passes for the field, NoString when it passes none
ArgvWord(name, f, argv) ==
  IF FlagOf(name, f) = NoString
  THEN (IF Len(argv) >= 3 THEN argv[3] ELSE NoString)
  ELSE IF \E i \in 1..(Len(argv) - 1) : argv[i] = FlagOf(name, f)
  THEN argv[1 + CHOOSE i \in 1..(Len(argv) - 1) : argv[i] = FlagOf(name, f)]
  ELSE NoString

\* the type a field has once normalized
NormalType(f) ==
  CASE f \in {"limit", "price", "size", "amount"} -> "number"
    [] f \in {"active", "closed", "postOnly"} -> "boolean"
    [] OTHER -> "string"

\* a text with surrounding blanks and letter case set aside
Folded(s) == ToUpperCase(Trim(s))

\* the fields of the caller's bag that the plan passes on in argv
PassedOn ==
  {f \in DOMAIN call.args \cap AllowedFields(call.toolName) :
     ArgvWord(call.toolName, f, built.argv) # NoString}

\* C34: for every operation and every bag its build accepts, each field of
\* the bag that argv passes on is a field of the guard arguments, holds
\* there a value of the field's normalized type, and the text of that value
\* is, blanks and letter case aside, the word argv passes.
C34_PolicySeesWhatRuns ==
  Planned /\ built.ok =>
    \A f \in PassedOn :
      /\ f \in DOMAIN built.guardArgs
      /\ built.guardArgs[f].t = NormalType(f)
      /\ Folded(StringOf(built.guardArgs[f]))
           = Folded(ArgvWord(call.toolName, f, built.argv))

\* the invocation l got past resolveLiveState: it simulated or ran a command
PastLiveState(l) == l.simCalls > 0 \/ Len(l.execCalls) > 0

\* the LiveState the invocation l acted on, read from what it did and returned
LiveStateSeen(l) ==
  [simulation |-> l.simCalls > 0,
   reason |-> IF l.result.kind = "returned"
                 /\ "reason" \in DOMAIN l.result.payload
              THEN l.result.payload.reason ELSE NoString]

\* both invocations have returned, so that their reasons can be compared
BothReturned(l, m) ==
  l.result.kind = "returned" /\ m.result.kind = "returned"

Payload(field) ==
  /\ pc = "done"
  /\ result.kind = "returned"
  /\ field \in DOMAIN result.payload

\* the executor was handed the operation's own argv
OwnArgvExecuted ==
  \E i \in 1..Len(execCalls) : execCalls[i].argv = built.argv

\* the reason names a gate that is closed for this invocation
ReasonHolds(reason) ==
  \/ reason = "simulation mode enabled"
       /\ SimulationEnabled(call.simulationOverride)
  \/ reason = "live trading disabled in config" /\ ~config.allowLiveTrades
  \/ reason = "ALLOW_LIVE_TRADES=true not set" /\ ~EnvAllowsLiveTrades

\* C36: the payload callTool returns tells what ran. live = true comes only
\* from a mutating operation with every live gate open whose own argv the
\* executor ran with ok = true; simulation = true comes with
\* liveTrading = false, the operation's name and a reason that holds, and
\* only when the operation's own argv was not executed
C36_PayloadTellsWhatRan ==
  /\ (Payload("live") /\ result.payload.live)
       => /\ Mutating(call.toolName)
          /\ ~SimulationEnabled(call.simulationOverride)
          /\ config.allowLiveTrades
          /\ EnvAllowsLiveTrades
          /\ OwnArgvExecuted
          /\ execution.ok
          /\ simCalls = 0
          /\ result.payload.tool = call.toolName
  /\ (Payload("simulation") /\ result.payload.simulation)
       => /\ result.payload.liveTrading = FALSE
          /\ result.payload.tool = call.toolName
          /\ Mutating(call.toolName)
          /\ ReasonHolds(result.payload.reason)
          /\ ~OwnArgvExecuted

\* a dry run of an order returned after its midpoint lookup had been executed
C36_Witness ==
  /\ Payload("simulation")
  /\ result.payload.simulation
  /\ call.toolName = "order_market"
  /\ Len(execCalls) = 1
  /\ result.payload.reason = "ALLOW_LIVE_TRADES=true not set"

\* this step handled the response of a status request
ResponseHandled == poll.ppc = "fetch" /\ poll'.ppc # "fetch"

\* the wait failed because the deadline had passed
ThrewDeadline(r) ==
  /\ r.kind = "threw"
  /\ \/ /\ r.error.code = ApprovalRequiredCode
        /\ r.error.message[1] = "Approval required but timed out after "
     \/ /\ r.error.code = ExecutionFailedCode
        /\ r.error.message[1] = "Approval polling failed: "

\* a poller that is running or has returned has sent a request; one that
\* threw without sending any had no API key
AtLeastOneRequest ==
  /\ poll.ppc \in {"fetch", "sleep", "returned"} => poll.requests >= 1
  /\ (poll.ppc = "threw" /\ poll.requests = 0) => ~ApiKeyPresent

\* C37: the approval poller sends at least one status request, and looks at
\* the deadline only after the response was handled: a terminal status in a
\* successful response is returned, and a 4xx response fails the wait as a
\* client error, however late the response came; the deadline failure
\* follows only a response that is neither, at or after the deadline
C37_DeadlineAfterResponse ==
  /\ []AtLeastOneRequest
  /\ [][ResponseHandled =>
          LET class == ResponseClass(poll'.last)
          IN /\ class = "terminal" =>
                  /\ poll'.ppc = "returned"
                  /\ approval' = Resolution(poll'.last)
                  /\ ~ThrewDeadline(result')
             /\ class = "client_error" =>
                  /\ poll'.ppc = "threw"
                  /\ result' = Threw(ClientErrorThrown(
                                       poll'.last, UsableApprovalId(decision)))
             /\ ThrewDeadline(result') =>
                  /\ class \in {"pending", "invalid_json", "retryable",
                                "network"}
                  /\ poll'.now >= poll'.deadline
                  /\ poll'.requests >= 1]_vars

\* the first response came at the deadline with a terminal status and was
\* returned
C37_Witness ==
  /\ poll.ppc = "returned"
  /\ poll.requests = 1
  /\ poll.now >= poll.deadline
  /\ ResponseClass(poll.last) = "terminal"
  /\ approval = Resolution(poll.last)

\* the environment variable named by the configuration holds no usable key
ApiKeyUnusable == env.apiKey \in {NoString, "", "   "}

\* the policy asked for an approval and gave an id to wait on
ApprovalAwaited ==
  /\ decision # NoDecision
  /\ decision.decision = "require_approval"
  /\ UsableApprovalId(decision) # NoString

\* C38: when the policy requires an approval with a usable approvalId and
\* the API-key variable is unset, empty or blank, the built-in wait fails
\* with code -32002 ('Approval required but <ENV> is not set for cloud
\* polling') before any status request is sent, callTool throws that very
\* error, and neither the executor nor a simulation runs
C38_NoKeyNoPolling ==
  (deps.waitForApproval = "cloud" /\ ApiKeyUnusable /\ ApprovalAwaited)
  => /\ pc = "done"
     /\ result = Threw([class |-> "RuntimeError", code |-> -32002,
                        message |-> <<"Approval required but ",
                                      config.apiKeyEnv,
                                      " is not set for cloud polling">>,
                        data |-> <<>>])
     /\ poll.requests = 0
     /\ poll.ppc = "threw"
     /\ waitCalls = <<UsableApprovalId(decision)>>
     /\ execCalls = <<>>
     /\ simCalls = 0

\* an order awaiting approval failed for a blank API key
C38_Witness ==
  /\ deps.waitForApproval = "cloud"
  /\ env.apiKey = "   "
  /\ ApprovalAwaited
  /\ call.toolName = "order_market"
  /\ pc = "done"
  /\ result.kind = "threw"
  /\ result.error.code = -32002

\* the promise of executePolymarket has been resolved
Delivered == settled # NotSettled

\* C39: an executor call yields one result whatever the order of its events:
\* the result is there once 'error' or 'close' was handled and not before,
\* the first of the two fixes it and clears the timer, no later event (a
\* 'close' after the 'error', a data chunk, the timer) changes it, and the
\* timer sends no signal once the call has completed
C39_OneResult ==
  /\ [](Delivered <=> (child.errored \/ child.closed))
  /\ [](Delivered => timer # "armed")
  /\ [][(~Delivered /\ Delivered')
          => /\ child.errored # child'.errored \/ child.closed # child'.closed
             /\ timer' \in {"cleared", "fired"}]_vars
  /\ [][Delivered
          => /\ settled' = settled
             /\ timer' = timer
             /\ child'.kills = child.kills
             /\ child'.signals = child.signals]_vars

\* the 'close' that follows a spawn 'error' was handled and the result is
\* still the one of the 'error'
C39_Witness ==
  /\ child.errored
  /\ child.closed
  /\ settled.exitCode = -1
  /\ settled.stderr # <<>>
  /\ timer = "cleared"

\* the places of the input read so far where a line ends
Newlines == {p \in 1..Len(stdin.read) : stdin.read[p] = "\n"}

\* where the text after the last complete line before place p starts
LineStart(p) ==
  IF \E q \in Newlines : q < p
  THEN 1 + CHOOSE q \in Newlines :
             q < p /\ \A r \in Newlines : r < p => r <= q
  ELSE 1

\* the trimmed line that ends at p
LineAt(p) == Trimmed[SubSeq(stdin.read, LineStart(p), p - 1)]

\* the complete lines a response is due for: all but the blank ones and
\* the notifications
LinesToAnswer ==
  {p \in Newlines :
     /\ LineAt(p) # <<>>
     /\ LineAt(p) # Line("notify")}

\* the requests with an id among the complete lines
RequestLines ==
  {p \in Newlines :
     \E body \in DOMAIN Documents :
       LineAt(p) = Line(body) /\ Documents[body].id # Undefined}

IdAt(p) == ParseRequest(LineAt(p)).v.id

\* C40: on the stdio transport every complete non-empty line is handled
\* once and the unterminated rest of the input is kept for the next chunk:
\* whatever the chunk boundaries, and with a second chunk arriving while a
\* request of the first awaits its tool call, no request is answered twice
\* or before its line is complete, the requests of the first chunk are
\* answered in line order, and once the input is read and the handlers are
\* through every request has its one response and every line that is due
\* one got it
C40_EveryLineHandledOnce ==
  /\ lineBuffer = SubSeq(stdin.read, LineStart(Len(stdin.read) + 1),
                         Len(stdin.read))
  /\ \A i \in 1..Len(replies) :
       replies[i].id # Undefined
         => /\ Cardinality(RepliesTo(replies[i].id)) = 1
            /\ \E p \in RequestLines : IdAt(p) = replies[i].id
  /\ Len(replies) <= Cardinality(LinesToAnswer)
  /\ \A p, q \in RequestLines :
       (p < q /\ q <= stdin.first /\ RepliesTo(IdAt(q)) # {})
         => \E i \in RepliesTo(IdAt(p)) :
              \A j \in RepliesTo(IdAt(q)) : i < j
  /\ Quiescent
       => /\ \A p \in RequestLines : Cardinality(RepliesTo(IdAt(p))) = 1
          /\ Len(replies) = Cardinality(LinesToAnswer)

====
